---- MODULE Spec2Model ----
(***************************************************************************)
(* Protocol and credential layer of the NotebookLM plugin.                 *)
(*                                                                         *)
(*   SpecCall : one logical batch call, as executed by RpcTransport.call   *)
(*              and by fetchWithRecovery (client/recovery.ts, used by      *)
(*              callRpc of client/api.ts).                                 *)
(*   Spec     : the AuthManager singleton (auth/manager.ts) driven by      *)
(*              concurrent asynchronous tasks.                             *)
(*   SpecDecode  : extractResult / extractRpcResult on one response tuple. *)
(*   SpecQuery   : the QueryService and its conversation record.           *)
(*   SpecClient  : getClient, the client singleton (client/index.ts).      *)
(*   SpecSession : the session state and the session-idle poller.          *)
(*   SpecTools   : the tools that take a confirm argument.                 *)
(*   SpecCodec   : buildRpcBody, a gateway echo, parseResponse and         *)
(*                 extractResult on one parameter payload.                 *)
(***************************************************************************)
EXTENDS Integers, Sequences, FiniteSets, TLC

(***************************************************************************)
(* Part I.  One Transport call                                             *)
(***************************************************************************)

VARIABLES
    impl,          \* which retry loop runs: "transport" or "recovery"
    onAuthRefresh, \* is an auth-refresh callback installed
    cpc,           \* position of the call: "fetch", "refresh", "sleep", "done"
    attempt,       \* loop counter `attempt`
    authRetried,   \* local flag `authRetried`
    site,          \* which branch awaits the refresh: "status", "parse", "catch"
    log,           \* history: one record per request sent
    result,        \* what the call returned or threw
    heldToken,     \* the anti-forgery token the client holds (this.csrfToken)
    rpcBody        \* the request body built before the loop (`body`)

callVars == <<impl, onAuthRefresh, cpc, attempt, authRetried, site, log, result,
              heldToken, rpcBody>>

(***************************************************************************)
(* Part II.  The AuthManager singleton and its concurrent callers          *)
(***************************************************************************)

VARIABLES
    state,        \* AuthManager.state: status, tokens, age of the CSRF token
    disk,         \* the persisted credential file (auth.json)
    cdpEnabled,   \* config.cdpEnabled
    refreshMutex, \* AuthManager.refreshMutex: 0 (null) or the promise it holds
    execs,        \* the doRefresh() promises, one slot per promise still held
    op,           \* per task: the operation it runs
    stack,        \* per task: the awaits it is suspended in, innermost last
    ret,          \* per task: the value its last await or operation returned
    snap,         \* per task: `tokens` captured by refreshCsrf before its fetch
    bound,        \* per task: the promise its refresh() call waits for
    opsStarted,   \* number of operations started so far
    runs,         \* per task: layered recoveries its operation has started
    returned      \* what the step just taken returned to the caller, if it did

authVars == <<state, disk, cdpEnabled, refreshMutex, execs, op, stack, ret, snap,
              bound, opsStarted, runs, returned>>

(***************************************************************************)
(* Part III.  Decoding one response tuple                                  *)
(***************************************************************************)

VARIABLES
    decoder,      \* which decoder runs: "transport" or "api"
    item,         \* the response tuple for the requested call identifier
    decoded       \* what the decoder returned or threw

decodeVars == <<decoder, item, decoded>>

(***************************************************************************)
(* Part IV.  The QueryService: one streaming query at a time               *)
(***************************************************************************)

VARIABLES
    conversationCache,  \* conversation id -> its stored turns, oldest first
    qpc,                \* "idle", "fetch" (streamQuery out), "decode", "done"
    qConv,              \* the conversationId option of the query, or "new"
    qText,              \* the query text
    history,            \* the history parameter sent with the query
    longestAnswer,      \* decodeQueryResponse: its three locals and the
    longestThinking,    \*   number of chunk lines read so far
    chunksRead,
    seen,               \* what the chunk lines read so far carried
    answer,             \* what decodeQueryResponse returned
    qResult,            \* what query() returned or threw
    qSent,              \* the conversation id sent with the query
    qId                 \* the conversationId query() returned

queryVars == <<conversationCache, qpc, qConv, qText, history, longestAnswer,
               longestThinking, chunksRead, seen, answer, qResult, qSent, qId>>

\* getClient (the client singleton)
VARIABLES client, clientPromise, promises, gcpc, gcBound, got, gcCalls

clientVars == <<client, clientPromise, promises, gcpc, gcBound, got, gcCalls>>

VARIABLES sessionState, arrays, taskObjects, idle, issued, dropped, sessOp

sessionVars == <<sessionState, arrays, taskObjects, idle, issued, dropped, sessOp>>

VARIABLES toolRuns, requests, remote, invoked

toolVars == <<toolRuns, requests, remote, invoked>>

VARIABLES codec

codecVars == <<codec>>

laterVars == <<sessionVars, toolVars, codecVars>>

restVars == <<clientVars, laterVars>>

vars == <<callVars, authVars, decodeVars, queryVars, restVars>>

maxRetries == 3
baseDelay == 1000
maxDelay == 10000
retryOn == {429, 500, 502, 503, 504}

\* Jitter of calculateBackoff, in percent of the exponential delay
\* (Math.random() * 0.3 is in [0, 0.3)).
JitterPcts == {0, 29}

Statuses == {200, 401, 403, 404, 429, 500}
Bodies == {"payload", "rpc16", "rpc7"}
ExcMsgs == {"net", "auth", "Authentication expired"}

\* What one fetch can produce: an HTTP response, or a thrown exception.
Responses ==
    [type : {"http"}, status : Statuses \ {200}, body : {"-"}]
        \cup [type : {"http"}, status : {200}, body : Bodies]
        \cup [type : {"exc"}, status : {0}, body : ExcMsgs]

RefreshOutcomes == {"ok", "fail", "throw"}

NoResult == [kind |-> "none", code |-> "-", retryable |-> FALSE, value |-> "-"]
Value(v) == [kind |-> "value", code |-> "-", retryable |-> FALSE, value |-> v]
Error(c, r) == [kind |-> "error", code |-> c, retryable |-> r, value |-> "-"]

ResponseOk(status) == status >= 200 /\ status <= 299

\* Variant: the fallback case is marked retryable.
fromStatusRetryable(status) ==
    IF status = 401 THEN Error("AUTH_EXPIRED", TRUE)
    ELSE IF status = 403 THEN Error("AUTH_INVALID", TRUE)
    ELSE IF status = 429 THEN Error("RATE_LIMITED", TRUE)
    ELSE IF status >= 500 THEN Error("SERVER_ERROR", TRUE)
    ELSE Error("UNKNOWN", TRUE)

fromStatus(status) ==
    IF status = 401 THEN Error("AUTH_EXPIRED", TRUE)
    ELSE IF status = 403 THEN Error("AUTH_INVALID", TRUE)
    ELSE IF status = 429 THEN Error("RATE_LIMITED", TRUE)
    ELSE IF status >= 500 THEN Error("SERVER_ERROR", TRUE)
    ELSE Error("UNKNOWN", FALSE)

rpcError(code) ==
    IF code = 16 THEN Error("AUTH_EXPIRED", TRUE) ELSE Error("RPC_ERROR", FALSE)

\* Variant: every AppError counts as an authentication error.
isAuthErrorAny(e) == e.kind = "error"

\* errors.ts isAuthError, on an AppError
isAuthErrorApp(e) == e.code = "AUTH_EXPIRED" \/ e.code = "AUTH_INVALID"

\* errors.ts isAuthError, on a plain Error with the given message
isAuthErrorMsg(msg) == msg = "RPC Error 16" \/ msg = "Authentication expired"

wrapError(msg) ==
    IF isAuthErrorMsg(msg) THEN rpcError(16) ELSE Error("UNKNOWN", FALSE)

\* recovery.ts
isAuthError(statusCode) == statusCode = 401 \/ statusCode = 403

isRetryable(statusCode, retryList) == statusCode \in retryList

statusToError(statusCode) ==
    IF statusCode = 401 THEN Error("AUTH_EXPIRED", TRUE)
    ELSE IF statusCode = 403 THEN Error("AUTH_INVALID", TRUE)
    ELSE IF statusCode = 429 THEN Error("RATE_LIMITED", TRUE)
    ELSE IF statusCode >= 500 THEN Error("SERVER_ERROR", TRUE)
    ELSE Error("UNKNOWN", FALSE)

isAuthErrorMessage(msg) ==
    msg = "RPC Error 16" \/ msg = "Authentication expired" \/ msg = "auth"

Pow2(n) == IF n = 0 THEN 1 ELSE IF n = 1 THEN 2 ELSE IF n = 2 THEN 4 ELSE 8

Min(a, b) == IF a < b THEN a ELSE b

calculateBackoff(n, base, cap, pct) ==
    Min(base * Pow2(n) + (base * Pow2(n) * pct) \div 100, cap)

transportDelay(n) == 1000 * Pow2(n)

----
(* history: what followed each response *)

\* resp: the outcome of the request; refresh: what the auth-refresh callback
\* answered after it ("none" when it was not invoked); slept: the backoff
\* delay slept after it (0 when none).
\* buildRpcBody / buildRequestBody: the body carries the token as `at`.
buildRpcBody(token) == [at |-> token]

\* `fetch(url, {..., body})`: the request sent is the body built before the
\* loop, whatever token the client holds by now.
RequestSent(b, token) == b

\* at: the token the request carried.
Entry(r) ==
    [resp |-> r, slept |-> 0, refresh |-> "none",
     at |-> RequestSent(rpcBody, heldToken).at]

SetRefresh(o) == [log EXCEPT ![Len(log)].refresh = o]

SetSlept(d) == [log EXCEPT ![Len(log)].slept = d]

LastResp == log[Len(log)].resp

\* A step of the loop body: where control goes next.
Goto(next, where, retried, res, att) ==
    [next |-> next, site |-> where, authRetried |-> retried, result |-> res,
     attempt |-> att]

CallStarts ==
    /\ impl \in {"transport", "recovery"}
    /\ onAuthRefresh \in BOOLEAN
    /\ cpc = "fetch"
    /\ attempt = 0
    /\ authRetried = FALSE
    /\ site = "-"
    /\ log = <<>>
    /\ result = NoResult
    /\ heldToken = "old"
    /\ rpcBody = buildRpcBody(heldToken)

----
(* RpcTransport.call *)

\* `continue` of the for loop: attempt++ and the loop test; falling out of the
\* loop reaches the final throw.
TransportContinue(att, retried) ==
    IF att + 1 <= maxRetries
    THEN Goto("fetch", "-", retried, NoResult, att + 1)
    ELSE Goto("done", "-", retried, Error("NETWORK_ERROR", FALSE), att + 1)

\* The outer catch block, for an error that is not an AppError.
TransportCatch(msg, att, retried) ==
    IF att < maxRetries
    THEN Goto("sleep", "-", retried, NoResult, att)
    ELSE Goto("done", "-", retried, wrapError(msg), att)

\* extractResult on a 200 response and the catch around it.
TransportDecode(body, att, retried, cb) ==
    IF body = "payload"
    THEN Goto("done", "-", retried, Value("payload"), att)
    ELSE LET e == rpcError(IF body = "rpc16" THEN 16 ELSE 7)
         IN  IF isAuthErrorApp(e) /\ ~retried /\ cb
             THEN Goto("refresh", "parse", TRUE, NoResult, att)
             ELSE Goto("done", "-", retried, e, att)

\* The loop body from the fetch up to its first await, return or throw.
TransportBody(r, att, retried, cb) ==
    IF r.type = "exc" THEN TransportCatch(r.body, att, retried)
    ELSE IF (r.status = 401 \/ r.status = 403) /\ ~retried /\ cb
    THEN Goto("refresh", "status", TRUE, NoResult, att)
    ELSE IF r.status >= 500 /\ att < maxRetries
    THEN Goto("sleep", "-", retried, NoResult, att)
    ELSE IF ~ResponseOk(r.status)
    THEN Goto("done", "-", retried, fromStatus(r.status), att)
    ELSE TransportDecode(r.body, att, retried, cb)

\* Variant: a successful refresh is followed by a backoff sleep.
TransportAfterRefreshBackoff(o, err, where, r, att) ==
    IF o = "ok" THEN Goto("sleep", "-", TRUE, NoResult, att)
    ELSE IF o = "throw" THEN Goto("done", "-", TRUE, err, att)
    ELSE IF where = "status" THEN Goto("done", "-", TRUE, fromStatus(r.status), att)
    ELSE Goto("done", "-", TRUE, rpcError(16), att)

\* Variant: the loop goes on whatever the refresh answered.
TransportAfterRefreshRetry(o, err, where, r, att) ==
    IF o = "throw" THEN Goto("done", "-", TRUE, err, att)
    ELSE TransportContinue(att, TRUE)

\* What follows `await this.onAuthRefresh()`; err is what the callback threw.
TransportAfterRefresh(o, err, where, r, att) ==
    IF o = "ok" THEN TransportContinue(att, TRUE)
    ELSE IF o = "throw" THEN Goto("done", "-", TRUE, err, att)
    ELSE IF where = "status" THEN Goto("done", "-", TRUE, fromStatus(r.status), att)
    ELSE Goto("done", "-", TRUE, rpcError(16), att)

\* Errors the refresh callback of the client facade can throw
\* (doRefreshAuthTokens rethrows AppErrors and wraps the rest).
RefreshThrows == {Error("AUTH_EXPIRED", FALSE), fromStatus(500), fromStatus(429)}

Apply(s) ==
    /\ cpc' = s.next
    /\ site' = s.site
    /\ authRetried' = s.authRetried
    /\ result' = s.result
    /\ attempt' = s.attempt

TransportFetch(r) ==
    /\ impl = "transport"
    /\ cpc = "fetch"
    /\ log' = Append(log, Entry(r))
    /\ Apply(TransportBody(r, attempt, authRetried, onAuthRefresh))
    /\ UNCHANGED <<impl, onAuthRefresh, heldToken, rpcBody, authVars, decodeVars,
                   queryVars, restVars>>

TransportRefreshReturn(o, err) ==
    /\ impl = "transport"
    /\ cpc = "refresh"
    /\ log' = SetRefresh(o)
    /\ Apply(TransportAfterRefresh(o, err, site, LastResp, attempt))
    /\ heldToken' = IF o = "ok" THEN "new" ELSE heldToken
    /\ UNCHANGED <<impl, onAuthRefresh, rpcBody, authVars, decodeVars, queryVars,
                   restVars>>

\* Variant: the backoff sleep never resumes the loop.
TransportSleepOn ==
    /\ impl = "transport"
    /\ cpc = "sleep"
    /\ log' = SetSlept(transportDelay(attempt))
    /\ UNCHANGED <<impl, onAuthRefresh, cpc, attempt, authRetried, site, result,
                   heldToken, rpcBody, authVars, decodeVars, queryVars, restVars>>

TransportSleep ==
    /\ impl = "transport"
    /\ cpc = "sleep"
    /\ log' = SetSlept(transportDelay(attempt))
    /\ attempt' = attempt + 1
    /\ cpc' = "fetch"
    /\ UNCHANGED <<impl, onAuthRefresh, authRetried, site, result, heldToken, rpcBody,
                   authVars,
                   decodeVars, queryVars, restVars>>

----
(* fetchWithRecovery, as called by callRpc *)

RecoveryContinue(att, retried) ==
    IF att + 1 <= maxRetries
    THEN Goto("fetch", "-", retried, NoResult, att + 1)
    ELSE Goto("done", "-", retried, Error("NETWORK_ERROR", FALSE), att + 1)

\* The outer catch block for a thrown value that is not a StructuredError.
RecoveryCatch(msg, att, retried, cb) ==
    IF isAuthErrorMessage(msg) /\ cb /\ ~retried
    THEN Goto("refresh", "catch", TRUE, NoResult, att)
    ELSE IF att < maxRetries
    THEN Goto("sleep", "-", retried, NoResult, att)
    ELSE RecoveryContinue(att, retried)

\* parseFn (parseResponse + extractRpcResult) and the catch around it.
RecoveryParse(body, att, retried, cb) ==
    IF body = "payload" THEN Goto("done", "-", retried, Value("payload"), att)
    ELSE IF body = "rpc7" THEN Goto("done", "-", retried, Value("null"), att)
    ELSE IF isAuthErrorMessage("RPC Error 16") /\ cb /\ ~retried
    THEN Goto("refresh", "parse", TRUE, NoResult, att)
    ELSE RecoveryCatch("RPC Error 16", att, retried, cb)

RecoveryBody(r, att, retried, cb) ==
    IF r.type = "exc" THEN RecoveryCatch(r.body, att, retried, cb)
    ELSE IF isAuthError(r.status) /\ cb /\ ~retried
    THEN Goto("refresh", "status", TRUE, NoResult, att)
    ELSE IF ~ResponseOk(r.status) /\ isRetryable(r.status, retryOn)
    THEN IF att < maxRetries
         THEN Goto("sleep", "-", retried, NoResult, att)
         ELSE Goto("done", "-", retried, statusToError(r.status), att)
    ELSE IF ~ResponseOk(r.status)
    THEN Goto("done", "-", retried, statusToError(r.status), att)
    ELSE RecoveryParse(r.body, att, retried, cb)

\* What follows `await onAuthError()` at each of its three call sites.
RecoveryAfterRefresh(o, where, r, att, cb) ==
    IF o = "ok" THEN RecoveryContinue(att, TRUE)
    ELSE IF where = "status" THEN Goto("done", "-", TRUE, statusToError(r.status), att)
    ELSE IF where = "parse" THEN RecoveryCatch("RPC Error 16", att, TRUE, cb)
    ELSE Goto("done", "-", TRUE, Error("AUTH_EXPIRED", TRUE), att)

RecoveryFetch(r) ==
    /\ impl = "recovery"
    /\ cpc = "fetch"
    /\ log' = Append(log, Entry(r))
    /\ Apply(RecoveryBody(r, attempt, authRetried, onAuthRefresh))
    /\ UNCHANGED <<impl, onAuthRefresh, heldToken, rpcBody, authVars, decodeVars,
                   queryVars, restVars>>

RecoveryRefreshReturn(o) ==
    /\ impl = "recovery"
    /\ cpc = "refresh"
    /\ log' = SetRefresh(o)
    /\ Apply(RecoveryAfterRefresh(o, site, LastResp, attempt, onAuthRefresh))
    /\ heldToken' = IF o = "ok" THEN "new" ELSE heldToken
    /\ UNCHANGED <<impl, onAuthRefresh, rpcBody, authVars, decodeVars, queryVars,
                   restVars>>

RecoverySleep(pct) ==
    /\ impl = "recovery"
    /\ cpc = "sleep"
    /\ log' = SetSlept(calculateBackoff(attempt, baseDelay, maxDelay, pct))
    /\ attempt' = attempt + 1
    /\ cpc' = "fetch"
    /\ UNCHANGED <<impl, onAuthRefresh, authRetried, site, result, heldToken, rpcBody,
                   authVars,
                   decodeVars, queryVars, restVars>>


(***************************************************************************)
(* extractResult / extractRpcResult on the tuple ["wrb.fr", rpcId, ...]    *)
(***************************************************************************)

\* An entry of item[5]: a number, or something that is not a number.
Num(n) == [isNum |-> TRUE, val |-> n]
Garbage == [isNum |-> FALSE, val |-> 0]

\* item[5]: an array of entries, or a value that is not an array.
Slot(elems) == [isArray |-> TRUE, elems |-> elems]
NotArray == [isArray |-> FALSE, elems |-> <<>>]

Slots ==
    {NotArray, Slot(<<>>), Slot(<<Num(16)>>), Slot(<<Num(7)>>),
     Slot(<<Num(0), Num(16)>>), Slot(<<Num(7), Num(16)>>),
     Slot(<<Num(16), Num(7)>>), Slot(<<Garbage, Num(16)>>)}

\* item[6]
Markers == {"generic", "other", "null"}

\* item[2]
Payloads == {"json", "null"}

\* The tuples: length is item.length; a position past the end is "absent".
Items ==
    [length : {3}, payload : Payloads, slot : {NotArray}, marker : {"absent"}]
        \cup [length : {6}, payload : Payloads, slot : Slots, marker : {"absent"}]
        \cup [length : {7}, payload : Payloads, slot : Slots, marker : Markers]

\* The `item.length > 6 && item[6] === "generic" && Array.isArray(item[5])` test
ErrorMarked(it) == it.length > 6 /\ it.marker = "generic" /\ it.slot.isArray

\* item[5].find((c) => typeof c === "number"): the index of the first
\* number, 0 when there is none.
FindNumber(elems) ==
    IF \E i \in DOMAIN elems : elems[i].isNum
    THEN CHOOSE i \in DOMAIN elems :
             elems[i].isNum /\ \A j \in 1..(i - 1) : ~elems[j].isNum
    ELSE 0

\* item[5].includes(16)
Includes16(elems) == \E i \in DOMAIN elems : elems[i] = Num(16)

\* A thrown plain Error with the given message.
Thrown(msg) == [kind |-> "throw", code |-> msg, retryable |-> FALSE, value |-> "-"]

\* RpcTransport.extractResult on the matching tuple.
extractResult(it) ==
    LET k == FindNumber(it.slot.elems)
        errorCode == IF k = 0 THEN 0 ELSE it.slot.elems[k].val
    IN  IF ErrorMarked(it) /\ errorCode # 0
        THEN rpcError(errorCode)
        ELSE Value(it.payload)

\* NotebookLMClient.extractRpcResult (client/api.ts) on the matching tuple.
extractRpcResult(it) ==
    IF ErrorMarked(it) /\ Includes16(it.slot.elems)
    THEN Thrown("RPC Error 16")
    ELSE Value(it.payload)

DecodeStarts ==
    /\ decoder \in {"transport", "api"}
    /\ item \in Items
    /\ decoded = NoResult

DecodeParked ==
    /\ decoder = "transport"
    /\ item = [length |-> 3, payload |-> "null", slot |-> NotArray, marker |-> "absent"]
    /\ decoded = Value("null")

TransportExtract ==
    /\ decoder = "transport"
    /\ decoded = NoResult
    /\ decoded' = extractResult(item)
    /\ UNCHANGED <<decoder, item, callVars, authVars, queryVars, restVars>>

ApiExtract ==
    /\ decoder = "api"
    /\ decoded = NoResult
    /\ decoded' = extractRpcResult(item)
    /\ UNCHANGED <<decoder, item, callVars, authVars, queryVars, restVars>>

(***************************************************************************)
(* The QueryService: streamQuery, decodeQueryResponse, the conversations   *)
(***************************************************************************)

MaxChunks == 2
MaxTurns == 3

ConvIds == {"a", "b"}
Queries == {"q1"}

\* The candidate texts, named by their length, and the empty string.
Texts == {"t15", "t25", "t40"}
NoText == ""

\* text.length
TextLength(text) ==
    IF text = "t15" THEN 15 ELSE IF text = "t25" THEN 25
    ELSE IF text = "t40" THEN 40 ELSE 0

\* `answerText.length > 20`
MinLength == 20

\* The items of a chunk.  A fragment item carries a text at [0][0] of its
\* inner JSON and a trailing type tag (isFinal: the tag is 1); an error
\* item is a tuple of length 7 whose slot item[5] holds 16 (sixteen) or
\* another code and whose item[6] is the marker.
Fragment(text, isFinal) ==
    [kind |-> "frag", text |-> text, isFinal |-> isFinal, sixteen |-> FALSE,
     marker |-> "absent"]
ErrorItem(sixteen, marker) ==
    [kind |-> "err", text |-> NoText, isFinal |-> FALSE, sixteen |-> sixteen,
     marker |-> marker]

StreamItems ==
    {Fragment(x, f) : x \in Texts, f \in BOOLEAN}
        \cup {ErrorItem(c, m) : c \in BOOLEAN, m \in {"generic", "other"}}

\* One chunk line: one or two items.
Chunks == {<<a>> : a \in StreamItems} \cup {<<a, b>> : a, b \in StreamItems}

\* The item makes extractAnswerFromChunk return: it is error-marked, or it
\* carries a text that is long enough.
Returns(it) ==
    \/ it.kind = "err" /\ it.marker = "generic"
    \/ it.kind = "frag" /\ TextLength(it.text) > MinLength

\* extractAnswerFromChunk: the loop over the items returns at the first
\* item that is error-marked or carries an accepted text.
extractAnswerFromChunk(chunk) ==
    IF \E i \in DOMAIN chunk : Returns(chunk[i])
    THEN LET i == CHOOSE k \in DOMAIN chunk :
                      Returns(chunk[k]) /\ \A j \in 1..(k - 1) : ~Returns(chunk[j])
             it == chunk[i]
         IN  IF it.kind = "err"
             THEN [text |-> NoText, isAnswer |-> FALSE,
                   error |-> IF it.sixteen THEN "Authentication expired (RPC Error 16)"
                             ELSE "Generic RPC Error"]
             ELSE [text |-> it.text, isAnswer |-> it.isFinal, error |-> ""]
    ELSE [text |-> NoText, isAnswer |-> FALSE, error |-> ""]

\* Variant: the turns flattened query first.
buildConversationHistoryQueryFirst(turns) ==
    [i \in 1..(2 * Len(turns)) |->
        IF i % 2 = 1 THEN <<turns[(i + 1) \div 2].query, "null", 1>>
        ELSE <<turns[i \div 2].answer, "null", 2>>]

\* QueryService.buildConversationHistory on the stored turns (no turns: null,
\* here the empty sequence).
buildConversationHistory(turns) ==
    [i \in 1..(2 * Len(turns)) |->
        IF i % 2 = 1 THEN <<turns[(i + 1) \div 2].answer, "null", 2>>
        ELSE <<turns[i \div 2].query, "null", 1>>]

\* Variant: the new turn replaces the stored ones.
cacheConversationTurnAlone(cache, conversationId, query, text) ==
    [cache EXCEPT ![conversationId] =
        <<[query |-> query, answer |-> text, turnNumber |-> 1]>>]

\* QueryService.cacheConversationTurn
cacheConversationTurn(cache, conversationId, query, text) ==
    [cache EXCEPT ![conversationId] =
        Append(@, [query |-> query, answer |-> text, turnNumber |-> Len(@) + 1])]

\* What the chunk lines read so far carried: the length of the longest
\* accepted text tagged final answer, of the longest accepted text not so
\* tagged, and whether an item held the sentinel 16 in its error slot.
NothingSeen == [answer |-> 0, thinking |-> 0, sentinel |-> FALSE]

Longest(n, lengths) ==
    IF \E k \in lengths : k > n THEN CHOOSE k \in lengths : \A j \in lengths : j <= k
    ELSE n

See(sn, chunk) ==
    LET items == {chunk[i] : i \in DOMAIN chunk}
        accepted(f) == {TextLength(it.text) :
                           it \in {x \in items : x.kind = "frag" /\ x.isFinal = f
                                                     /\ TextLength(x.text) > MinLength}}
    IN  [answer |-> Longest(sn.answer, accepted(TRUE)),
         thinking |-> Longest(sn.thinking, accepted(FALSE)),
         sentinel |-> sn.sentinel \/ \E it \in items : it.kind = "err" /\ it.sixteen]

\* What streamQuery's fetch can produce.
StreamResponses ==
    [type : {"http"}, status : {200, 401, 500}] \cup [type : {"exc"}, status : {0}]

\* The value of the first crypto.randomUUID() of a query: no stored
\* conversation is named by it.
SentUuid == "uuid"

\* `conversationId || crypto.randomUUID()`
effectiveConversationId(c) == IF c = "new" THEN SentUuid ELSE c

QueryStarts ==
    /\ conversationCache = [c \in ConvIds |-> <<>>]
    /\ qpc = "idle"
    /\ qConv = "new"
    /\ qText = "q1"
    /\ history = <<>>
    /\ longestAnswer = NoText
    /\ longestThinking = NoText
    /\ chunksRead = 0
    /\ seen = NothingSeen
    /\ answer = NoText
    /\ qResult = NoResult
    /\ qSent = "none"
    /\ qId = "none"

QueryParked == QueryStarts

\* query() up to `await this.transport.streamQuery(...)`; source ids are
\* given.  A follow-up names its conversation.  The locals of a query that
\* has returned or thrown are gone.
QueryCall(c, q) ==
    /\ qpc \in {"idle", "done"}
    /\ Len(conversationCache["a"]) + Len(conversationCache["b"]) < MaxTurns
    /\ c = "new" => \E k \in ConvIds : conversationCache[k] = <<>>
    /\ qpc' = "fetch"
    /\ qConv' = c
    /\ qText' = q
    /\ history' = IF c = "new" THEN <<>>
                  ELSE buildConversationHistory(conversationCache[c])
    /\ longestAnswer' = NoText
    /\ longestThinking' = NoText
    /\ chunksRead' = 0
    /\ seen' = NothingSeen
    /\ answer' = NoText
    /\ qResult' = NoResult
    /\ qSent' = effectiveConversationId(c)
    /\ qId' = "none"
    /\ UNCHANGED <<conversationCache, callVars, authVars, decodeVars, restVars>>

\* streamQuery: the fetch throws, answers not ok, or answers with a body.
StreamQueryReturns(r) ==
    /\ qpc = "fetch"
    /\ IF r.type = "exc"
       THEN qpc' = "done" /\ qResult' = Thrown("fetch failed") /\ history' = <<>>
       ELSE IF ~ResponseOk(r.status)
       THEN /\ qpc' = "done"
            /\ qResult' = Error("RPC_ERROR", r.status >= 500)
            /\ history' = <<>>
       ELSE qpc' = "decode" /\ qResult' = NoResult /\ UNCHANGED history
    /\ UNCHANGED <<conversationCache, qConv, qText, longestAnswer,
                   longestThinking, chunksRead, seen, answer, qSent, qId,
                   callVars, authVars, decodeVars, restVars>>

\* decodeQueryResponse: one turn of the loop, on the next chunk line.
DecodeChunk(chunk) ==
    /\ qpc = "decode"
    /\ chunksRead < MaxChunks
    /\ seen' = See(seen, chunk)
    /\ LET x == extractAnswerFromChunk(chunk)
       IN  IF x.error # ""
           THEN /\ qpc' = "done"
                /\ qResult' = Thrown(x.error)
                /\ longestAnswer' = NoText
                /\ longestThinking' = NoText
                /\ chunksRead' = 0
                /\ history' = <<>>
           ELSE /\ UNCHANGED <<qpc, qResult, history>>
                /\ chunksRead' = chunksRead + 1
                /\ longestAnswer' =
                       IF x.text # NoText /\ x.isAnswer
                              /\ TextLength(x.text) > TextLength(longestAnswer)
                       THEN x.text ELSE longestAnswer
                /\ longestThinking' =
                       IF x.text # NoText /\ ~x.isAnswer
                              /\ TextLength(x.text) > TextLength(longestThinking)
                       THEN x.text ELSE longestThinking
    /\ UNCHANGED <<conversationCache, qConv, qText, answer, qSent, qId,
                   callVars, authVars, decodeVars, restVars>>

\* decodeQueryResponse returns `longestAnswer || longestThinking`; query()
\* throws on an empty answer, and otherwise stores the turn under the
\* conversation id (a fresh random one for a new conversation, one that
\* names no stored conversation) and returns.
DecodeReturns(fresh) ==
    /\ qpc = "decode"
    /\ IF qConv = "new" THEN conversationCache[fresh] = <<>> ELSE fresh = qConv
    /\ LET text == IF longestAnswer # NoText THEN longestAnswer ELSE longestThinking
           convId == IF qConv = "new" THEN fresh ELSE qConv
       IN  /\ answer' = text
           /\ IF text = NoText
              THEN /\ qResult' = Error("VALIDATION_ERROR", FALSE)
                   /\ UNCHANGED <<conversationCache, qId>>
              ELSE /\ qResult' = Value(text)
                   /\ qId' = convId
                   /\ conversationCache' =
                          cacheConversationTurn(conversationCache, convId, qText, text)
    /\ qpc' = "done"
    /\ longestAnswer' = NoText
    /\ longestThinking' = NoText
    /\ chunksRead' = 0
    /\ history' = <<>>
    /\ UNCHANGED <<qConv, qText, seen, qSent, callVars, authVars, decodeVars, restVars>>

\* QueryService.clearConversation, between the steps of a query (the
\* decoding runs in one step with the return of streamQuery).
ClearConversation(c) ==
    /\ qpc # "decode"
    /\ conversationCache[c] # <<>>
    /\ conversationCache' = [conversationCache EXCEPT ![c] = <<>>]
    /\ UNCHANGED <<qpc, qConv, qText, history, longestAnswer, longestThinking,
                   chunksRead, seen, answer, qResult, qSent, qId,
                   callVars, authVars, decodeVars, restVars>>

(***************************************************************************)
(* getClient: the client singleton                                         *)
(***************************************************************************)

MaxCallers == 3
MaxCalls == 4

Callers == 1..MaxCallers

\* What a promise of getClient holds: nothing yet, the client it
\* constructed, or the error it was rejected with.
Pending == [kind |-> "pending", inst |-> 0, err |-> "-"]
Instance(n) == [kind |-> "client", inst |-> n, err |-> "-"]
Rejected(e) == [kind |-> "error", inst |-> 0, err |-> e]

\* What ensureValid() does for the caller: true, false, or an exception.
EnsureValidOutcomes == {"true", "false", "raised"}

ClientStarts ==
    /\ client = 0
    /\ clientPromise = 0
    /\ promises = <<>>
    /\ gcpc = [a \in Callers |-> "idle"]
    /\ gcBound = [a \in Callers |-> 0]
    /\ got = [a \in Callers |-> Pending]
    /\ gcCalls = 0

ClientParked == ClientStarts

\* Variant: getClient() without the test of the promise in flight.
PromiseNeverInFlight(p) == FALSE

\* `if (_clientPromise)`
PromiseInFlight(p) == p # 0

\* getClient() up to its first await or return.
GetClient(a) ==
    /\ gcpc[a] \in {"idle", "done"}
    /\ gcCalls < MaxCalls
    /\ gcCalls' = gcCalls + 1
    /\ IF client # 0
       THEN /\ gcpc' = [gcpc EXCEPT ![a] = "done"]
            /\ gcBound' = [gcBound EXCEPT ![a] = 0]
            /\ got' = [got EXCEPT ![a] = Instance(client)]
            /\ UNCHANGED <<clientPromise, promises>>
       ELSE IF PromiseInFlight(clientPromise)
       THEN /\ gcpc' = [gcpc EXCEPT ![a] = "joined"]
            /\ gcBound' = [gcBound EXCEPT ![a] = clientPromise]
            /\ got' = [got EXCEPT ![a] = Pending]
            /\ UNCHANGED <<clientPromise, promises>>
       ELSE /\ promises' = Append(promises, Pending)
            /\ clientPromise' = Len(promises) + 1
            /\ gcpc' = [gcpc EXCEPT ![a] = "owner"]
            /\ gcBound' = [gcBound EXCEPT ![a] = Len(promises) + 1]
            /\ got' = [got EXCEPT ![a] = Pending]
    /\ UNCHANGED <<client, callVars, authVars, decodeVars, queryVars, laterVars>>

\* The async function behind the promise p resumes from
\* `await authManager.ensureValid()`.
ClientPromiseSettles(p, valid) ==
    /\ p \in DOMAIN promises
    /\ promises[p] = Pending
    /\ IF valid = "true"
       THEN /\ client' = p
            /\ promises' = [promises EXCEPT ![p] = Instance(p)]
       ELSE /\ UNCHANGED client
            /\ promises' = [promises EXCEPT ![p] =
                               Rejected(IF valid = "false" THEN "AUTH_MISSING" ELSE "raised")]
    /\ UNCHANGED <<clientPromise, gcpc, gcBound, got, gcCalls,
                   callVars, authVars, decodeVars, queryVars, laterVars>>

\* The caller that created the promise resumes from `await _clientPromise`:
\* the finally block.
GetClientFinally(a) ==
    /\ gcpc[a] = "owner"
    /\ promises[gcBound[a]] # Pending
    /\ clientPromise' = 0
    /\ gcpc' = [gcpc EXCEPT ![a] = "done"]
    /\ got' = [got EXCEPT ![a] = promises[gcBound[a]]]
    /\ UNCHANGED <<client, promises, gcBound, gcCalls,
                   callVars, authVars, decodeVars, queryVars, laterVars>>

\* A caller that was handed the promise in flight receives what it holds.
GetClientJoined(a) ==
    /\ gcpc[a] = "joined"
    /\ promises[gcBound[a]] # Pending
    /\ gcpc' = [gcpc EXCEPT ![a] = "done"]
    /\ got' = [got EXCEPT ![a] = promises[gcBound[a]]]
    /\ UNCHANGED <<client, clientPromise, promises, gcBound, gcCalls,
                   callVars, authVars, decodeVars, queryVars, laterVars>>

\* resetClient()
ResetClient ==
    /\ client # 0
    /\ client' = 0
    /\ UNCHANGED <<clientPromise, promises, gcpc, gcBound, got, gcCalls,
                   callVars, authVars, decodeVars, queryVars, laterVars>>

(***************************************************************************)
(* The session state (state/normalizers.ts) and the session-idle poller     *)
(***************************************************************************)

(* Bound: the number of background tasks the service hands out.  A task's  *)
(* identifier is issued by the service when the task is started.           *)
MaxTasks == 2

TaskIds == 1 .. MaxTasks

(* An array object of the program.  Array 0 is defaultState.pendingTasks;  *)
(* the others are the copies updateState receives.  At most three arrays   *)
(* are referenced at a time: the default's, the state's and the one the    *)
(* poller iterates.                                                        *)
DefaultTasks == 0

ArrIds == 0 .. 2

NoNotebook == "null"

NotebookIds == {"nb1"}

SessionConversations == {"a"}

(* a PendingTask object as addPendingTask receives it: no retryCount, no   *)
(* lastCheckedAt                                                           *)
NewTask == [status |-> "pending", retryCount |-> 0, lastCheckedAt |-> FALSE]

(* let state = { ...defaultState }: the copy is shallow, so the state's    *)
(* pendingTasks is the default's array                                     *)
FromDefault == [notebookId |-> NoNotebook, conversationId |-> NoNotebook,
                pendingTasks |-> DefaultTasks]

SessionStarts ==
    /\ sessionState = FromDefault
    /\ arrays = [a \in ArrIds |-> <<>>]
    /\ taskObjects = [id \in TaskIds |-> NewTask]
    /\ idle = [pc |-> "idle", pending |-> DefaultTasks, next |-> 1]
    /\ issued = {}
    /\ dropped = {}
    /\ sessOp = [name |-> "load", id |-> 0]

SessionParked == SessionStarts

(* the arrays some reference of the program still reaches *)
Reached(s, i) ==
    {DefaultTasks, s.pendingTasks} \cup (IF i.pc = "loop" THEN {i.pending} ELSE {})

(* a new array object for the state: one that neither the default state    *)
(* nor the poller reaches (the state lets go of the array it held)         *)
NewArray(s, i) ==
    CHOOSE a \in ArrIds : a \notin Reached([s EXCEPT !.pendingTasks = DefaultTasks], i)

(* an array nothing reaches any more is collected *)
Collect(arrs, s, i) ==
    [a \in ArrIds |-> IF a \in Reached(s, i) THEN arrs[a] ELSE <<>>]

Filter(seq, id) == SelectSeq(seq, LAMBDA t : t # id)

Has(seq, id) == \E k \in DOMAIN seq : seq[k] = id

(* state.pendingTasks.push(task), or the replacement of the element with   *)
(* the same id: the array the state holds is changed in place              *)
PushInPlace(arrs, s, id) ==
    IF Has(arrs[s.pendingTasks], id)
    THEN arrs
    ELSE [arrs EXCEPT ![s.pendingTasks] = Append(@, id)]

setActiveNotebook(n) ==
    /\ sessionState' = [sessionState EXCEPT !.notebookId = n]
    /\ sessOp' = [name |-> "setActiveNotebook", id |-> 0]
    /\ UNCHANGED <<arrays, taskObjects, idle, issued, dropped>>

setConversation(c) ==
    /\ sessionState' = [sessionState EXCEPT !.conversationId = c]
    /\ sessOp' = [name |-> "setConversation", id |-> 0]
    /\ UNCHANGED <<arrays, taskObjects, idle, issued, dropped>>

addPendingTask(id) ==
    /\ id \notin issued
    /\ LET pushed == PushInPlace(arrays, sessionState, id)
           n == NewArray(sessionState, idle)
           s == [sessionState EXCEPT !.pendingTasks = n]
       IN  /\ sessionState' = s
           /\ arrays' = Collect([pushed EXCEPT ![n] = pushed[sessionState.pendingTasks]],
                                s, idle)
    /\ taskObjects' = [taskObjects EXCEPT ![id] = NewTask]
    /\ issued' = issued \cup {id}
    /\ sessOp' = [name |-> "addPendingTask", id |-> id]
    /\ UNCHANGED <<idle, dropped>>

(* removePendingTask: the filtered list is a new array *)
removePendingTask(arrs, s, i, id) ==
    LET n == NewArray(s, i)
        t == [s EXCEPT !.pendingTasks = n]
    IN  [state |-> t,
         arrays |-> Collect([arrs EXCEPT ![n] = Filter(arrs[s.pendingTasks], id)], t, i)]

(* updatePendingTask: Object.assign on the task found in the state's list, *)
(* then a copy of the list; nothing when the list does not hold the task   *)
updatePendingTask(arrs, objs, s, i, id, updates) ==
    IF Has(arrs[s.pendingTasks], id)
    THEN LET n == NewArray(s, i)
             t == [s EXCEPT !.pendingTasks = n]
         IN  [state |-> t,
              arrays |-> Collect([arrs EXCEPT ![n] = arrs[s.pendingTasks]], t, i),
              objects |-> [objs EXCEPT ![id] =
                              [f \in DOMAIN @ |->
                                  IF f \in DOMAIN updates THEN updates[f]
                                  ELSE IF f = "lastCheckedAt" THEN TRUE ELSE @[f]]]]
    ELSE [state |-> s, arrays |-> arrs, objects |-> objs]

(* reset: state = { ...defaultState, sessionStartedAt } *)
reset ==
    /\ sessionState' = FromDefault
    /\ arrays' = Collect(arrays, FromDefault, idle)
    /\ sessOp' = [name |-> "reset", id |-> 0]
    /\ UNCHANGED <<taskObjects, idle, issued, dropped>>

(* handleSessionIdle up to its loop: nothing to do on an empty list, and   *)
(* no polling when getClient() raises                                      *)
IdleStarts(hasClient) ==
    /\ idle.pc = "idle"
    /\ arrays[sessionState.pendingTasks] # <<>>
    /\ idle' = IF hasClient
               THEN [pc |-> "loop", pending |-> sessionState.pendingTasks, next |-> 1]
               ELSE idle
    /\ sessOp' = [name |-> "idle", id |-> 0]
    /\ UNCHANGED <<sessionState, arrays, taskObjects, issued, dropped>>

(* the for-of loop has run off the end of the list it iterates *)
IdleEnds ==
    /\ idle.pc = "loop"
    /\ idle.next > Len(arrays[idle.pending])
    /\ idle' = [pc |-> "idle", pending |-> DefaultTasks, next |-> 1]
    /\ arrays' = Collect(arrays, sessionState, idle')
    /\ sessOp' = [name |-> "idleEnds", id |-> 0]
    /\ UNCHANGED <<sessionState, taskObjects, issued, dropped>>

PollOutcomes == {"recent", "raised", "processing", "completed"}

(* the limit the catch block compares retryCount with *)
RetryLimit == 3

Exhausted(retryCount) == retryCount >= RetryLimit

(* one turn of the loop, for the task the iterator stands on *)
IdlePoll(outcome) ==
    /\ idle.pc = "loop"
    /\ idle.next <= Len(arrays[idle.pending])
    /\ LET id == arrays[idle.pending][idle.next]
           task == taskObjects[id]
           i == [idle EXCEPT !.next = @ + 1]
           removed == removePendingTask(arrays, sessionState, i, id)
       IN  /\ idle' = i
           /\ outcome = "recent" => task.lastCheckedAt
           /\ sessOp' = [name |-> IF outcome = "recent" THEN "skip" ELSE "poll",
                         id |-> id]
           /\ CASE outcome = "recent" ->
                     UNCHANGED <<sessionState, arrays, taskObjects, dropped>>
                [] outcome = "completed" ->
                     /\ sessionState' = removed.state
                     /\ arrays' = removed.arrays
                     /\ UNCHANGED <<taskObjects, dropped>>
                [] outcome = "processing" ->
                     LET u == updatePendingTask(arrays, taskObjects, sessionState, i, id,
                                                [status |-> "processing"])
                     IN  /\ sessionState' = u.state
                         /\ arrays' = u.arrays
                         /\ taskObjects' = u.objects
                         /\ UNCHANGED dropped
                [] outcome = "raised" ->
                     IF Exhausted(task.retryCount)
                     THEN /\ sessionState' = removed.state
                          /\ arrays' = removed.arrays
                          /\ dropped' = dropped \cup {id}
                          /\ UNCHANGED taskObjects
                     ELSE LET u == updatePendingTask(arrays, taskObjects, sessionState, i,
                                                     id, [retryCount |-> task.retryCount + 1])
                          IN  /\ sessionState' = u.state
                              /\ arrays' = u.arrays
                              /\ taskObjects' = u.objects
                              /\ UNCHANGED dropped
    /\ UNCHANGED issued

(***************************************************************************)
(* The tools that take a confirm argument (index.ts, tools/ *.ts)           *)
(***************************************************************************)

(* Bound: the number of tool invocations of one run of the model. *)
MaxInvocations == 2

(* Bound: the number of invocations under way at a time. *)
MaxRuns == 2

Runs == 1 .. MaxRuns

(* the client method each guarded tool calls once confirmed *)
ClientMethod ==
    [notebook_delete       |-> "deleteNotebook",
     source_delete         |-> "deleteSource",
     studio_delete         |-> "deleteStudioArtifact",
     studio_create         |-> "createStudioContent",
     audio_overview_create |-> "createStudioContent",
     mind_map_create       |-> "createMindMap",
     source_sync_drive     |-> "syncDriveSource"]

ConfirmTools == DOMAIN ClientMethod

(* the tools of index.ts that await resolveNotebookId before the client *)
Resolving == {"studio_create", "studio_delete"}

(* confirm is an optional boolean argument *)
ConfirmValues == {"true", "false", "undefined"}

(* variant: only an explicit false stops the tool *)
OnlyFalse(confirm) == confirm = "false"

(* !args.confirm *)
NotConfirmed(confirm) == confirm \in {"false", "undefined"}

(* what the service holds: the effect of a client method that went through *)
Effect(method, held) ==
    CASE method = "deleteNotebook"       -> held \ {"notebook"}
      [] method = "deleteSource"         -> held \ {"source"}
      [] method = "deleteStudioArtifact" -> held \ {"artifact"}
      [] method = "createStudioContent"  -> held \cup {"artifact"}
      [] method = "createMindMap"        -> held \cup {"mindmap"}
      [] OTHER                           -> held

FreeRun == [pc |-> "free", tool |-> "-", confirm |-> "-", result |-> "-", sent |-> 0]

ToolsStart ==
    /\ toolRuns = [r \in Runs |-> FreeRun]
    /\ requests = {}
    /\ remote = {"notebook", "source", "artifact"}
    /\ invoked = 0

ToolsParked == ToolsStart

ErrorResult(run) == [run EXCEPT !.pc = "done", !.result = "error"]

(* getClient() and the call of the client's method, up to its await *)
ClientCall(r, run, hasClient) ==
    IF hasClient
    THEN /\ toolRuns' = [toolRuns EXCEPT ![r] = [run EXCEPT !.pc = "await", !.sent = @ + 1]]
         /\ requests' = requests \cup {[tool |-> run.tool,
                                           method |-> ClientMethod[run.tool],
                                           confirm |-> run.confirm]}
    ELSE /\ toolRuns' = [toolRuns EXCEPT ![r] = ErrorResult(run)]
         /\ UNCHANGED requests

(* execute(args): the guard, then the part of the body before its first await *)
ToolExecute(r, tool, confirm, hasClient) ==
    /\ toolRuns[r].pc \in {"free", "done"}
    /\ invoked < MaxInvocations
    /\ invoked' = invoked + 1
    /\ LET run == [pc |-> "body", tool |-> tool, confirm |-> confirm,
                   result |-> "-", sent |-> 0]
       IN  IF NotConfirmed(confirm)
           THEN /\ toolRuns' = [toolRuns EXCEPT ![r] = ErrorResult(run)]
                /\ UNCHANGED requests
           ELSE IF tool \in Resolving
           THEN /\ toolRuns' = [toolRuns EXCEPT ![r] = [run EXCEPT !.pc = "resolve"]]
                /\ UNCHANGED requests
           ELSE ClientCall(r, run, hasClient)
    /\ UNCHANGED remote

(* resolveNotebookId returns a notebook, or raises *)
ToolResolved(r, found, hasClient) ==
    /\ toolRuns[r].pc = "resolve"
    /\ IF found
       THEN ClientCall(r, toolRuns[r], hasClient)
       ELSE /\ toolRuns' = [toolRuns EXCEPT ![r] = ErrorResult(@)]
            /\ UNCHANGED requests
    /\ UNCHANGED <<remote, invoked>>

(* the client's method returns, or raises into the catch block *)
ToolClientReturns(r, ok) ==
    /\ toolRuns[r].pc = "await"
    /\ IF ok
       THEN /\ remote' = Effect(ClientMethod[toolRuns[r].tool], remote)
            /\ toolRuns' = [toolRuns EXCEPT ![r].pc = "done", ![r].result = "success"]
       ELSE /\ toolRuns' = [toolRuns EXCEPT ![r] = ErrorResult(@)]
            /\ UNCHANGED remote
    /\ UNCHANGED <<requests, invoked>>

(***************************************************************************)
(* The wire codec: buildRpcBody, parseResponse, extractResult               *)
(*                                                                         *)
(* A text is a sequence of symbols.  A symbol is one character, or a run   *)
(* of letters the codec never looks into ("null", "generic", "wrb.fr",     *)
(* the four hex digits "007f" of an escape).  A JSON value is a tuple      *)
(* whose first element names its type.                                     *)
(***************************************************************************)

(* Bound: the length of the strings inside a parameter payload. *)
MaxStringLength == 2

Quote == "\""

Backslash == "\\"

(* the characters U+000A and U+007F *)
Newline == "LF"

Delete == "DEL"

(* ASCII characters a payload string is made of: a letter, the letter of   *)
(* the \n escape, and the characters JSON, the form encoding or the line   *)
(* framing give a meaning to                                               *)
PayloadChars == {"a", "n", Quote, Backslash, Newline, Delete, "&", "!", "%"}

RECURSIVE StringsUpTo(_)
StringsUpTo(n) ==
    IF n = 0 THEN {<<>>}
    ELSE LET shorter == StringsUpTo(n - 1)
         IN  shorter \cup {Append(s, c) : s \in shorter, c \in PayloadChars}

JNull == <<"null">>

JTrue == <<"true">>

JNum(n) == <<"num", n>>

JStr(s) == <<"str", s>>

JArr(a) == <<"arr", a>>

(* parameter payloads: nested arrays of strings, numbers, true and null *)
ParamPayloads ==
    {JNull, JNum(12), JArr(<<>>)}
        \cup {JStr(s) : s \in StringsUpTo(MaxStringLength)}
        \cup {JArr(<<JStr(s)>>) : s \in StringsUpTo(MaxStringLength)}
        \cup {JArr(<<JNull, JArr(<<JNum(7), JStr(s)>>), JTrue>>) :
                  s \in StringsUpTo(MaxStringLength)}

CallIds == {<<"rpcA">>, <<"rpcB">>}

RECURSIVE Concat(_)
Concat(texts) ==
    IF texts = <<>> THEN <<>>
    ELSE IF Len(texts) = 1 THEN texts[1]
    ELSE LET half == Len(texts) \div 2
         IN  Concat(SubSeq(texts, 1, half)) \o Concat(SubSeq(texts, half + 1, Len(texts)))

RECURSIVE Commas(_)
Commas(texts) ==
    IF texts = <<>> THEN <<>>
    ELSE IF Len(texts) = 1 THEN texts[1]
    ELSE Head(texts) \o <<",">> \o Commas(Tail(texts))

DigitSymbols == <<"0", "1", "2", "3", "4", "5", "6", "7", "8", "9">>

IsDigit(c) == \E d \in DOMAIN DigitSymbols : DigitSymbols[d] = c

DigitValue(c) == (CHOOSE d \in DOMAIN DigitSymbols : DigitSymbols[d] = c) - 1

RECURSIVE decimal(_)
decimal(n) ==
    IF n < 10 THEN <<DigitSymbols[n + 1]>>
    ELSE decimal(n \div 10) \o <<DigitSymbols[(n % 10) + 1]>>

(* variant: a string is written as it is *)
escapeNothing(c) == <<c>>

(* JSON.stringify on one character of a string *)
escape(c) ==
    IF c = Quote THEN <<Backslash, Quote>>
    ELSE IF c = Backslash THEN <<Backslash, Backslash>>
    ELSE IF c = Newline THEN <<Backslash, "n">>
    ELSE <<c>>

RECURSIVE JSONstringify(_)
JSONstringify(v) ==
    CASE v[1] = "null" -> <<"null">>
      [] v[1] = "true" -> <<"true">>
      [] v[1] = "num"  -> decimal(v[2])
      [] v[1] = "str"  ->
             <<Quote>> \o Concat([k \in DOMAIN v[2] |-> escape(v[2][k])]) \o <<Quote>>
      [] v[1] = "arr"  ->
             <<"[">> \o Commas([k \in DOMAIN v[2] |-> JSONstringify(v[2][k])]) \o <<"]">>

(* jsonStringifyAscii: the characters from U+007F on become \uXXXX *)
jsonStringifyAscii(data) ==
    LET text == JSONstringify(data)
    IN  Concat([k \in DOMAIN text |->
                   IF text[k] = Delete THEN <<Backslash, "u", "007f">> ELSE <<text[k]>>])

(* JSON.parse: a value at the head of a text, and what follows it *)
SyntaxError == [ok |-> FALSE, v |-> JNull, rest |-> <<>>]

Parsed(v, rest) == [ok |-> TRUE, v |-> v, rest |-> rest]

(* the number of backslashes that stand in a row right before position k *)
BackslashesBefore(text, k) ==
    LET others == {j \in 1 .. k - 1 : text[j] # Backslash}
    IN  IF others = {} THEN k - 1
        ELSE k - 1 - CHOOSE j \in others : \A h \in others : h <= j

(* position k opens an escape: a backslash that no escape before it took *)
OpensEscape(text, k) == text[k] = Backslash /\ BackslashesBefore(text, k) % 2 = 0

(* the character position k of a string stands for; nothing for the        *)
(* backslash of an escape and for the u of \u007f                          *)
Unescaped(text, k) ==
    IF OpensEscape(text, k) THEN <<>>
    ELSE IF k > 1 /\ OpensEscape(text, k - 1)
         THEN IF text[k] = "n" THEN <<Newline>>
              ELSE IF text[k] = "u" THEN <<>>
              ELSE <<text[k]>>
    ELSE IF k > 2 /\ OpensEscape(text, k - 2) /\ text[k - 1] = "u" THEN <<Delete>>
    ELSE <<text[k]>>

(* no raw newline, and every escape is one JSON knows *)
WellEscaped(text, k) ==
    IF OpensEscape(text, k)
    THEN /\ k < Len(text)
         /\ \/ text[k + 1] \in {Quote, Backslash, "n"}
            \/ text[k + 1] = "u" /\ k + 2 <= Len(text) /\ text[k + 2] = "007f"
    ELSE text[k] # Newline

(* a string, from the character after its opening quote: it ends at the    *)
(* first quote that no backslash escapes                                   *)
parseString(text) ==
    LET closing == {k \in DOMAIN text : text[k] = Quote /\ BackslashesBefore(text, k) % 2 = 0}
    IN  IF closing = {} THEN SyntaxError
        ELSE LET end == CHOOSE k \in closing : \A h \in closing : k <= h
                 inside == SubSeq(text, 1, end - 1)
             IN  IF \A k \in DOMAIN inside : WellEscaped(inside, k)
                 THEN Parsed(JStr(Concat([k \in DOMAIN inside |-> Unescaped(inside, k)])),
                             SubSeq(text, end + 1, Len(text)))
                 ELSE SyntaxError

RECURSIVE parseNumber(_, _)
parseNumber(text, n) ==
    IF text # <<>> /\ IsDigit(Head(text))
    THEN parseNumber(Tail(text), 10 * n + DigitValue(Head(text)))
    ELSE Parsed(JNum(n), text)

RECURSIVE parseValue(_)
RECURSIVE parseElements(_, _)
parseElements(text, acc) ==
    LET element == parseValue(text)
    IN  IF ~element.ok \/ element.rest = <<>> THEN SyntaxError
        ELSE IF Head(element.rest) = ","
             THEN parseElements(Tail(element.rest), Append(acc, element.v))
        ELSE IF Head(element.rest) = "]"
             THEN Parsed(JArr(Append(acc, element.v)), Tail(element.rest))
        ELSE SyntaxError

parseValue(text) ==
    IF text = <<>> THEN SyntaxError
    ELSE IF Head(text) = "null" THEN Parsed(JNull, Tail(text))
    ELSE IF Head(text) = "true" THEN Parsed(JTrue, Tail(text))
    ELSE IF IsDigit(Head(text)) THEN parseNumber(text, 0)
    ELSE IF Head(text) = Quote THEN parseString(Tail(text))
    ELSE IF Head(text) # "[" THEN SyntaxError
    ELSE IF Len(text) >= 2 /\ text[2] = "]" THEN Parsed(JArr(<<>>), SubSeq(text, 3, Len(text)))
    ELSE parseElements(Tail(text), <<>>)

Whitespace == {Newline, " "}

RECURSIVE TrimStart(_)
TrimStart(text) ==
    IF text # <<>> /\ Head(text) \in Whitespace THEN TrimStart(Tail(text)) ELSE text

RECURSIVE TrimEnd(_)
TrimEnd(text) ==
    IF text # <<>> /\ text[Len(text)] \in Whitespace
    THEN TrimEnd(SubSeq(text, 1, Len(text) - 1))
    ELSE text

Trim(text) == TrimEnd(TrimStart(text))

(* JSON.parse of a whole text: white space around the value is allowed *)
JSONparse(text) ==
    LET r == parseValue(TrimStart(text))
    IN  IF r.ok /\ TrimStart(r.rest) = <<>> THEN r ELSE SyntaxError

(* the percent escape of a character *)
percentCode(c) ==
    CASE c = Quote     -> <<"%", "2", "2">>
      [] c = Backslash -> <<"%", "5", "C">>
      [] c = Newline   -> <<"%", "0", "A">>
      [] c = Delete    -> <<"%", "7", "F">>
      [] c = " "       -> <<"%", "2", "0">>
      [] c = "!"       -> <<"%", "2", "1">>
      [] c = "%"       -> <<"%", "2", "5">>
      [] c = "&"       -> <<"%", "2", "6">>
      [] c = ","       -> <<"%", "2", "C">>
      [] c = "="       -> <<"%", "3", "D">>
      [] c = "["       -> <<"%", "5", "B">>
      [] c = "]"       -> <<"%", "5", "D">>

Escaped == {Quote, Backslash, Newline, Delete, " ", "!", "%", "&", ",", "=", "[", "]"}

(* encodeURIComponent leaves letters, digits and - _ . ! ~ * ' ( ) alone *)
encodeURIComponent(str) ==
    Concat([k \in DOMAIN str |->
               IF str[k] \in Escaped \ {"!"} THEN percentCode(str[k]) ELSE <<str[k]>>])

(* strictEncode: the characters ! ' ( ) * are escaped as well *)
strictEncode(str) ==
    LET text == encodeURIComponent(str)
    IN  Concat([k \in DOMAIN text |->
                   IF text[k] = "!" THEN percentCode(text[k]) ELSE <<text[k]>>])

(* buildRpcBody(rpcId, params, csrfToken) of client/encoding.ts *)
buildRpcBodyText(rpcId, params, csrfToken) ==
    LET paramsJson == jsonStringifyAscii(params)
        fReq == JArr(<<JArr(<<JArr(<<JStr(rpcId), JStr(paramsJson), JNull,
                                     JStr(<<"generic">>)>>)>>)>>)
        fReqJson == jsonStringifyAscii(fReq)
    IN  <<"f.req", "=">> \o strictEncode(fReqJson)
            \o (IF csrfToken # <<>> THEN <<"&", "at", "=">> \o strictEncode(csrfToken)
                ELSE <<>>)
            \o <<"&">>

(* The stub gateway: it undoes the form encoding, reads the call out of    *)
(* f.req and answers with the payload text it received, framed as the      *)
(* gateway frames a result: the prefix, a length line, and one chunk       *)
(* holding ["wrb.fr", rpcId, payload, null, null, null, "generic"].        *)
unquote(text) ==
    Concat([k \in DOMAIN text |->
               IF text[k] = "%" /\ k + 2 <= Len(text)
               THEN <<CHOOSE c \in Escaped : percentCode(c) = SubSeq(text, k, k + 2)>>
               ELSE IF (k > 1 /\ text[k - 1] = "%") \/ (k > 2 /\ text[k - 2] = "%")
                    THEN <<>>
               ELSE <<text[k]>>])

(* the part of a text before the first c *)
UpTo(text, c) ==
    LET hits == {k \in DOMAIN text : text[k] = c}
    IN  IF hits = {} THEN text
        ELSE SubSeq(text, 1, (CHOOSE k \in hits : \A h \in hits : k <= h) - 1)

XssiPrefix == ")]}'"

IsArray(v) == v[1] = "arr"

(* the only element of a one-element array *)
Only(v) == IF IsArray(v) /\ Len(v[2]) = 1 THEN v[2][1] ELSE JNull

ServerEcho(body) ==
    LET field == UpTo(SubSeq(body, 3, Len(body)), "&")
        call == Only(Only(JSONparse(unquote(field)).v))
        chunk == JArr(<<JArr(<<JStr(<<"wrb.fr">>), call[2][1], call[2][2], JNull, JNull,
                               JNull, JStr(<<"generic">>)>>)>>)
        line == JSONstringify(chunk)
    IN  IF IsArray(call) /\ Len(call[2]) = 4
        THEN <<XssiPrefix, Newline, Newline>> \o decimal(Len(line)) \o <<Newline>>
                 \o line \o <<Newline>>
        ELSE <<XssiPrefix, Newline>>

stripXssiPrefix(text) ==
    IF text # <<>> /\ Head(text) = XssiPrefix THEN Tail(text) ELSE text

(* text.split("\n") *)
RECURSIVE Split(_)
Split(text) ==
    LET line == UpTo(text, Newline)
    IN  IF Len(line) = Len(text) THEN <<line>>
        ELSE <<line>> \o Split(SubSeq(text, Len(line) + 2, Len(text)))

(* parseInt(line, 10) is a number *)
IsCount(line) ==
    /\ line # <<>>
    /\ \/ IsDigit(Head(line))
       \/ Head(line) \in {"-", "+"} /\ Len(line) >= 2 /\ IsDigit(line[2])

PushParsed(results, line) ==
    LET r == JSONparse(line) IN IF r.ok THEN Append(results, r.v) ELSE results

RECURSIVE parseLines(_, _, _)
parseLines(lines, i, results) ==
    IF i > Len(lines) THEN results
    ELSE LET line == Trim(lines[i])
         IN  IF line = <<>> THEN parseLines(lines, i + 1, results)
             ELSE IF IsCount(line)
                  THEN parseLines(lines, i + 2,
                                  IF i + 1 <= Len(lines)
                                  THEN PushParsed(results, lines[i + 1])
                                  ELSE results)
             ELSE parseLines(lines, i + 1, PushParsed(results, line))

(* RpcTransport.parseResponse *)
parseResponse(responseText) ==
    parseLines(Split(Trim(stripXssiPrefix(responseText))), 1, <<>>)

(* the items of the chunks, in the order the two loops visit them *)
ItemsOf(parsed) ==
    Concat([k \in DOMAIN parsed |-> IF IsArray(parsed[k]) THEN parsed[k][2] ELSE <<>>])

Addressed(it, rpcId) ==
    /\ IsArray(it)
    /\ Len(it[2]) >= 3
    /\ it[2][1] = JStr(<<"wrb.fr">>)
    /\ it[2][2] = JStr(rpcId)

(* item[5].find(c => typeof c === "number") is a number other than 0 *)
ErrorCodeIn(v) ==
    LET numbers == {k \in DOMAIN v[2] : v[2][k][1] = "num"}
    IN  /\ numbers # {}
        /\ v[2][CHOOSE k \in numbers : \A h \in numbers : k <= h][2] # 0

(* RpcTransport.extractResult on the parsed chunks *)
extractResultValue(parsed, rpcId) ==
    LET items == ItemsOf(parsed)
        hits == {k \in DOMAIN items : Addressed(items[k], rpcId)}
    IN  IF hits = {} THEN [kind |-> "value", v |-> JNull]
        ELSE LET it == items[CHOOSE k \in hits : \A h \in hits : k <= h][2]
             IN  IF /\ Len(it) > 6
                    /\ it[7] = JStr(<<"generic">>)
                    /\ IsArray(it[6])
                    /\ ErrorCodeIn(it[6])
                 THEN [kind |-> "thrown", v |-> JNull]
                 ELSE IF it[3][1] = "str"
                      THEN LET r == JSONparse(it[3][2])
                           IN  [kind |-> "value", v |-> IF r.ok THEN r.v ELSE it[3]]
                      ELSE [kind |-> "value", v |-> it[3]]

CodecIdle == [stage |-> "idle", rpcId |-> <<>>, p |-> JNull, text |-> <<>>,
              parsed |-> <<>>, out |-> [kind |-> "none", v |-> JNull]]

CodecParked == codec = CodecIdle

CodecStarts ==
    codec \in {[CodecIdle EXCEPT !.stage = "payload", !.rpcId = rpcId, !.p = p] :
                   rpcId \in CallIds, p \in ParamPayloads}

Encode ==
    /\ codec.stage = "payload"
    /\ codec' = [codec EXCEPT !.stage = "encoded",
                              !.text = buildRpcBodyText(codec.rpcId, codec.p, <<"token">>)]

Echo ==
    /\ codec.stage = "encoded"
    /\ codec' = [codec EXCEPT !.stage = "echoed", !.text = ServerEcho(codec.text)]

ParseResponse ==
    /\ codec.stage = "echoed"
    /\ codec' = [codec EXCEPT !.stage = "parsed", !.parsed = parseResponse(codec.text)]

ExtractResult ==
    /\ codec.stage = "parsed"
    /\ codec' = [codec EXCEPT !.stage = "extracted",
                              !.out = extractResultValue(codec.parsed, codec.rpcId)]

(***************************************************************************)
(* The AuthManager: state, operations and tasks                            *)
(***************************************************************************)

NumTasks == 2
MaxOps == 3

Tasks == 1..NumTasks

Ages == {"fresh", "aged", "expired"}

\* AuthTokens.  cookies: which cookie set ("bad" lacks a required cookie);
\* csrf: "" or a token; age: the age of extractedAt: "fresh" is younger than
\* the proactive threshold, "aged" is older than it but not past the maximum
\* age, "expired" is past the maximum age.
NoTokens == [cookies |-> "none", csrf |-> "", age |-> "-"]
Tokens(c, k, a) == [cookies |-> c, csrf |-> k, age |-> a]

REQUIRED_COOKIES == {"SID", "HSID", "SSID", "APISID", "SAPISID"}

\* The cookie names each cookie set carries: "c1" and "c2" are complete,
\* "bad" lacks SAPISID, "none" is the empty map.
CookieNames(cookies) ==
    IF cookies \in {"c1", "c2"} THEN REQUIRED_COOKIES \cup {"NID"}
    ELSE IF cookies = "bad" THEN REQUIRED_COOKIES \ {"SAPISID"}
    ELSE {}

\* Variant: every cookie set passes.
validateCookiesAny(cookies) == TRUE

validateCookies(cookies) == \A key \in REQUIRED_COOKIES : key \in CookieNames(cookies)

isTokenExpired(tokens) == tokens.age = "expired"

Unauthenticated == [status |-> "unauthenticated", tokens |-> NoTokens, csrfAged |-> FALSE]
Authenticated(tokens, aged) == [status |-> "authenticated", tokens |-> tokens, csrfAged |-> aged]
Expired(tokens) == [status |-> "expired", tokens |-> tokens, csrfAged |-> FALSE]

getTokens(s) ==
    IF s.status = "authenticated" \/ s.status = "expired" THEN s.tokens ELSE NoTokens

isAuthenticated(s) == s.status = "authenticated"

\* Variant: the proactive refresh is due whatever the age of the token.
needsCsrfRefreshAlways(s) == s.status = "authenticated"

needsCsrfRefresh(s) == s.status = "authenticated" /\ s.csrfAged

\* What the persisted file can hold when the process starts: nothing,
\* cookies that lack a required one, usable credentials saved without an
\* anti-forgery token, credentials past the maximum age.
DiskStarts ==
    {NoTokens, Tokens("bad", "old", "fresh"), Tokens("c1", "", "aged"),
     Tokens("c1", "old", "expired")}

\* What refreshAuthViaCDP extracts from the browser.
CdpTokens == Tokens("c2", "new", "fresh")

\* A doRefresh() promise, with its history.  done, result: its resolution;
\* bare: no credentials were loaded when it started; reloaded: Layer 2
\* adopted the persisted credentials; cdp: browser-automation invocations;
\* callers: refresh() calls that were handed this promise (its starter
\* included); answers: the values those callers received.
NewExec(s) ==
    [done |-> FALSE, result |-> FALSE, raised |-> FALSE,
     bare |-> getTokens(s) = NoTokens,
     reloaded |-> FALSE, cdp |-> 0, callers |-> 1, answers |-> {}]

\* A slot that holds no promise.
NoExec ==
    [done |-> TRUE, result |-> FALSE, raised |-> FALSE, bare |-> FALSE,
     reloaded |-> FALSE, cdp |-> 0, callers |-> 0, answers |-> {}]

\* A promise is unreferenced once it has resolved and no refresh() call
\* waits for it any more.
Unreferenced(ex, bnd, e) == ex[e].done /\ \A t \in DOMAIN bnd : bnd[t] # e

\* Unreferenced promises are collected.
Forget(ex, bnd) ==
    [e \in DOMAIN ex |-> IF Unreferenced(ex, bnd, e) THEN NoExec ELSE ex[e]]

\* The machine state the synchronous code of one step works on.
Cur ==
    [state |-> state, disk |-> disk, refreshMutex |-> refreshMutex, execs |-> execs,
     stack |-> stack, ret |-> ret, snap |-> snap, bound |-> bound, op |-> op,
     runs |-> runs, threw |-> FALSE]

\* No operation returned in the step.
NoReturn == [op |-> "none", from |-> "none", value |-> "none"]

\* The operation `name` returned to its caller from the await `from` ("call":
\* it never awaited), with true or false, or raised.
Returned(name, from, r, t) ==
    [op |-> name, from |-> from,
     value |-> IF r.threw THEN "raised" ELSE IF r.ret[t] THEN "true" ELSE "false"]

\* The step of task t ends in m; name is the operation t runs.  A task whose
\* operation has returned (no frame left) is free again.
Commit(m, t, name) ==
    \E r \in {m} :
        /\ state' = r.state
        /\ disk' = r.disk
        /\ refreshMutex' = r.refreshMutex
        /\ execs' = r.execs
        /\ stack' = r.stack
        /\ snap' = r.snap
        /\ bound' = r.bound
        /\ IF r.stack[t] = <<>>
           THEN /\ op' = [op EXCEPT ![t] = "none"]
                /\ ret' = [r.ret EXCEPT ![t] = FALSE]
                /\ runs' = [r.runs EXCEPT ![t] = 0]
                /\ returned' = Returned(name,
                                        IF stack[t] = <<>> THEN "call"
                                        ELSE stack[t][Len(stack[t])],
                                        r, t)
           ELSE /\ op' = [op EXCEPT ![t] = name]
                /\ ret' = r.ret
                /\ runs' = r.runs
                /\ returned' = NoReturn

Range(f) == {f[i] : i \in DOMAIN f}

Top(st) == st[Len(st)]

Pop(st) == SubSeq(st, 1, Len(st) - 1)

\* The doRefresh() executions that have not resolved yet.
InFlight(ex) == {e \in DOMAIN ex : ~ex[e].done}

setState(m, t, s) == [m EXCEPT !.state = s]

\* An async function returns v: its frame goes, and the caller awaiting it
\* (if any) resumes later with v.
Return(m, t, v) ==
    [m EXCEPT !.stack[t] = Pop(m.stack[t]), !.ret[t] = v, !.snap[t] = NoTokens]

----
(* refreshCsrf *)

\* refreshCsrf() up to its fetch, called by a frame that awaits it.
refreshCsrfCall(m, t) ==
    IF getTokens(m.state) = NoTokens
    THEN [m EXCEPT !.ret[t] = FALSE]
    ELSE [m EXCEPT !.stack[t] = Append(m.stack[t], "csrf_fetch"),
                   !.snap[t] = getTokens(m.state)]

\* refreshCsrf() after its fetch.  o = "token": the page carried a CSRF
\* token and the save worked; "savefail": it carried one and
\* saveTokensToCache threw; "fail": not ok, no token, or the fetch threw.
refreshCsrfResume(m, t, o) ==
    LET updatedTokens == [m.snap[t] EXCEPT !.csrf = "new"]
        m1 == setState(m, t, Authenticated(updatedTokens, FALSE))
    IN  IF o = "fail" THEN Return(m, t, FALSE)
        ELSE IF o = "savefail" THEN Return(m1, t, FALSE)
        ELSE Return([m1 EXCEPT !.disk = updatedTokens], t, TRUE)

----
(* refresh and doRefresh *)

\* Variant: refresh() without its test of the mutex.
MutexNeverHeld(mutex) == FALSE

\* `if (this.refreshMutex)`
MutexHeld(mutex) == mutex # 0

\* doRefresh() resolves with v.
doRefreshReturn(m, t, v) ==
    LET e == m.bound[t]
    IN  [m EXCEPT !.execs[e].done = TRUE, !.execs[e].result = v,
                  !.stack[t] = Pop(m.stack[t]), !.ret[t] = v]

\* doRefresh() has no try/catch: an exception of a layer rejects its promise.
doRefreshRaise(m, t) ==
    LET e == m.bound[t]
    IN  [m EXCEPT !.execs[e].done = TRUE, !.execs[e].raised = TRUE,
                  !.stack[t] = Pop(m.stack[t]), !.ret[t] = FALSE]

\* An exception leaves refresh() and every frame above it: initialize() and
\* ensureValid() catch nothing.
Unwind(m, t) ==
    [m EXCEPT !.stack[t] = <<>>, !.ret[t] = FALSE, !.snap[t] = NoTokens,
              !.threw = TRUE]

\* Variant: Layer 4 reports failure and leaves the state as it is.
doRefreshLayer4Keep(m, t) == doRefreshReturn(m, t, FALSE)

\* Layer 4
doRefreshLayer4(m, t) ==
    LET currentTokens == getTokens(m.state)
        m1 == IF currentTokens # NoTokens
              THEN setState(m, t, Expired(currentTokens))
              ELSE setState(m, t, Unauthenticated)
    IN  doRefreshReturn(m1, t, FALSE)

\* Variant: Layer 3 launches the browser whatever the configuration.
doRefreshLayer3On(m, t, enabled) ==
    [m EXCEPT !.stack[t] = Append(Pop(m.stack[t]), "dr_cdp"),
              !.execs[m.bound[t]].cdp = m.execs[m.bound[t]].cdp + 1]

\* Variant: Layer 3 never launches the browser.
doRefreshLayer3Off(m, t, enabled) ==
    [m EXCEPT !.stack[t] = Append(Pop(m.stack[t]), "dr_avail")]

\* Layer 3, up to its await; the frame on top is doRefresh's.
doRefreshLayer3(m, t, enabled) ==
    LET e == m.bound[t]
    IN  IF enabled
        THEN [m EXCEPT !.stack[t] = Append(Pop(m.stack[t]), "dr_cdp"),
                       !.execs[e].cdp = m.execs[e].cdp + 1]
        ELSE [m EXCEPT !.stack[t] = Append(Pop(m.stack[t]), "dr_avail")]

\* Layer 2, up to its await.
doRefreshLayer2(m, t, enabled) ==
    LET diskTokens == m.disk
    IN  IF diskTokens # NoTokens /\ validateCookies(diskTokens.cookies)
               /\ ~isTokenExpired(diskTokens)
        THEN LET m1 == setState(m, t, Authenticated(diskTokens, diskTokens.age = "aged"))
                 m2 == [m1 EXCEPT !.stack[t] = Append(Pop(m1.stack[t]), "dr_L2"),
                                  !.execs[m.bound[t]].reloaded = TRUE]
             IN  refreshCsrfCall(m2, t)
        ELSE doRefreshLayer3(m, t, enabled)

\* doRefresh() resumes from `await refreshAuthViaCDP(...)`, which has saved
\* the tokens it found to the persisted file.
doRefreshAfterCdp(m, t, found) ==
    IF found
    THEN doRefreshReturn(
             setState([m EXCEPT !.disk = CdpTokens], t, Authenticated(CdpTokens, FALSE)),
             t, TRUE)
    ELSE doRefreshLayer4(m, t)

\* Variant: Layer 2 is tried whatever Layer 1 answered.
doRefreshAfterLayer1Always(m, t, enabled) == doRefreshLayer2(m, t, enabled)

\* doRefresh() resumes from `await this.refreshCsrf()` of Layer 1.
doRefreshAfterLayer1(m, t, enabled) ==
    IF m.ret[t] THEN doRefreshReturn(m, t, TRUE)
    ELSE doRefreshLayer2(m, t, enabled)

\* refresh() up to its first await.
refreshCall(m, t) ==
    LET p == m.refreshMutex
    IN  IF MutexHeld(m.refreshMutex)
        THEN [m EXCEPT !.stack[t] = Append(m.stack[t], "rf_join"),
                       !.bound[t] = p,
                       !.execs[p].callers = @ + 1]
        ELSE LET e == CHOOSE i \in DOMAIN m.execs :
                          /\ Unreferenced(m.execs, m.bound, i)
                          /\ \A j \in DOMAIN m.execs :
                                 Unreferenced(m.execs, m.bound, j) => i <= j
                 m1 == [m EXCEPT !.execs[e] = NewExec(m.state),
                                 !.refreshMutex = e,
                                 !.bound[t] = e,
                                 !.runs[t] = @ + 1,
                                 !.stack[t] = m.stack[t] \o <<"rf_await", "dr_L1">>]
             IN  refreshCsrfCall(m1, t)

\* Variant: refresh() without its finally block.
refreshFinallyKeep(m, t) ==
    IF m.execs[m.bound[t]].raised
    THEN Unwind([m EXCEPT !.bound[t] = 0], t)
    ELSE Return([m EXCEPT !.execs[m.bound[t]].answers = @ \cup {m.ret[t]},
                          !.bound[t] = 0],
                t, m.ret[t])

\* refresh() resumes from `await this.refreshMutex`: the finally block.
refreshFinally(m, t) ==
    IF m.execs[m.bound[t]].raised
    THEN Unwind([m EXCEPT !.refreshMutex = 0, !.bound[t] = 0], t)
    ELSE Return([m EXCEPT !.refreshMutex = 0,
                          !.execs[m.bound[t]].answers = @ \cup {m.ret[t]},
                          !.bound[t] = 0],
                t, m.ret[t])

\* A caller that was handed the promise in flight receives its value.
refreshJoined(m, t) ==
    LET v == m.execs[m.bound[t]].result
    IN  IF m.execs[m.bound[t]].raised
        THEN Unwind([m EXCEPT !.bound[t] = 0], t)
        ELSE Return([m EXCEPT !.execs[m.bound[t]].answers = @ \cup {v},
                              !.bound[t] = 0],
                    t, v)

----
(* initialize, ensureValid, saveManualTokens, reset *)

\* initialize(), called by a frame that awaits it.
initializeCall(m, t) ==
    LET tokens == m.disk
    IN  IF tokens = NoTokens \/ ~validateCookies(tokens.cookies)
        THEN [setState(m, t, Unauthenticated) EXCEPT !.ret[t] = FALSE]
        ELSE IF isTokenExpired(tokens)
        THEN refreshCall(setState(m, t, Expired(tokens)), t)
        ELSE [setState(m, t, Authenticated(tokens, tokens.age = "aged"))
                 EXCEPT !.ret[t] = TRUE]

ensureValidCall(m, t) ==
    IF m.state.status = "unauthenticated"
    THEN initializeCall([m EXCEPT !.stack[t] = <<"ev_init">>], t)
    ELSE IF m.state.status = "expired"
    THEN refreshCall(m, t)
    ELSE IF needsCsrfRefresh(m.state)
    THEN refreshCsrfCall([m EXCEPT !.stack[t] = <<"ev_csrf">>], t)
    ELSE [m EXCEPT !.ret[t] = isAuthenticated(m.state)]

\* ensureValid() resumes from `await this.initialize()`.
ensureValidAfterInitialize(m, t) ==
    IF m.ret[t] THEN Return(m, t, TRUE)
    ELSE refreshCall([m EXCEPT !.stack[t] = Pop(m.stack[t])], t)

saveManualTokensCall(m, t, cookies, csrfToken) ==
    IF ~validateCookies(cookies) THEN [m EXCEPT !.ret[t] = FALSE]
    ELSE LET tokens == Tokens(cookies, csrfToken, "fresh")
             m1 == setState([m EXCEPT !.disk = tokens], t, Authenticated(tokens, FALSE))
         IN  IF csrfToken = ""
             THEN refreshCsrfCall([m1 EXCEPT !.stack[t] = <<"sm_csrf">>], t)
             ELSE [m1 EXCEPT !.ret[t] = TRUE]

----
(* the actions: a task starts an operation, or resumes from an await *)

Idle(t) == stack[t] = <<>>

\* The machine state in which task t starts the operation `name`.
Named(t, name) == [Cur EXCEPT !.op[t] = name, !.execs = Forget(execs, bound)]

\* Tasks are anonymous: a new operation runs in the first free task.
Begin(t, name, m) ==
    /\ Idle(t)
    /\ \A u \in Tasks : u < t => ~Idle(u)
    /\ opsStarted < MaxOps
    /\ opsStarted' = opsStarted + 1
    /\ Commit(m, t, name)
    /\ UNCHANGED <<cdpEnabled, callVars, decodeVars, queryVars, restVars>>

Resume(t, label, m) ==
    /\ ~Idle(t)
    /\ Top(stack[t]) = label
    /\ Commit(m, t, op[t])
    /\ UNCHANGED <<cdpEnabled, opsStarted, callVars, decodeVars, queryVars, restVars>>

\* Task t has a continuation in the microtask queue: the promise its top
\* frame awaits has settled (of the awaits modelled, only the fetch, the
\* browser automation and a joined recovery still in flight have not).
Ready(t) ==
    /\ ~Idle(t)
    /\ Top(stack[t]) \notin {"csrf_fetch", "dr_cdp", "dr_avail"}
    /\ Top(stack[t]) = "rf_join" => execs[bound[t]].done

\* The microtask queue is empty.
Quiet == \A t \in Tasks : ~Ready(t)

\* An I/O completion is a new turn of the event loop: it runs once the
\* microtask queue has drained.
Settle(t, label, m) == Quiet /\ Resume(t, label, m)

\* handleAuthError() / refresh()
StartRefresh(t) ==
    Begin(t, "refresh", refreshCall(Named(t, "refresh"), t))

\* The Transport's callback: onAuthRefresh: () => authManager.refreshCsrf()
StartOnAuthRefresh(t) ==
    Begin(t, "onAuthRefresh", refreshCsrfCall(Named(t, "onAuthRefresh"), t))

\* Date.now() is read by needsCsrfRefresh only: `elapsed` says whether the
\* CSRF token has grown older than the proactive threshold by now.
Elapse(m, elapsed) ==
    IF elapsed /\ m.state.status = "authenticated"
    THEN [m EXCEPT !.state.csrfAged = TRUE]
    ELSE m

StartEnsureValid(t, elapsed) ==
    Begin(t, "ensureValid",
          ensureValidCall(Elapse(Named(t, "ensureValid"), elapsed), t))

StartSaveManualTokens(t, cookies, csrfToken) ==
    Begin(t, "saveManualTokens",
          saveManualTokensCall(Named(t, "saveManualTokens"), t, cookies, csrfToken))

Reset(t) ==
    Begin(t, "reset",
          [setState(Named(t, "reset"), t, Unauthenticated) EXCEPT !.ret[t] = TRUE])

CsrfFetchReturns(t, o) ==
    Settle(t, "csrf_fetch", refreshCsrfResume(Cur, t, o))

DoRefreshAfterLayer1(t) ==
    Resume(t, "dr_L1", doRefreshAfterLayer1(Cur, t, cdpEnabled))

DoRefreshAfterLayer2(t) ==
    Resume(t, "dr_L2", doRefreshReturn(Cur, t, TRUE))

CdpReturns(t, found) ==
    Settle(t, "dr_cdp", doRefreshAfterCdp(Cur, t, found))

\* refreshAuthViaCDP() extracted credentials and saveTokensToCache() threw.
CdpThrows(t) ==
    Settle(t, "dr_cdp", doRefreshRaise(Cur, t))

CdpAvailableReturns(t) ==
    Settle(t, "dr_avail", doRefreshLayer4(Cur, t))

RefreshFinally(t) ==
    Resume(t, "rf_await", refreshFinally(Cur, t))

RefreshJoined(t) ==
    /\ ~Idle(t)
    /\ Top(stack[t]) = "rf_join"
    /\ execs[bound[t]].done
    /\ Resume(t, "rf_join", refreshJoined(Cur, t))

EnsureValidAfterInitialize(t) ==
    Resume(t, "ev_init", ensureValidAfterInitialize(Cur, t))

EnsureValidAfterCsrf(t) ==
    Resume(t, "ev_csrf", Return(Cur, t, isAuthenticated(state)))

SaveManualTokensAfterCsrf(t) ==
    Resume(t, "sm_csrf", Return(Cur, t, TRUE))

AuthStarts ==
    /\ state = Unauthenticated
    /\ disk \in DiskStarts
    /\ cdpEnabled \in BOOLEAN
    /\ refreshMutex = 0
    /\ execs = [e \in Tasks |-> NoExec]
    /\ op = [t \in Tasks |-> "none"]
    /\ stack = [t \in Tasks |-> <<>>]
    /\ ret = [t \in Tasks |-> FALSE]
    /\ snap = [t \in Tasks |-> NoTokens]
    /\ bound = [t \in Tasks |-> 0]
    /\ opsStarted = 0
    /\ runs = [t \in Tasks |-> 0]
    /\ returned = NoReturn

\* No call is running while the AuthManager is studied, and the AuthManager
\* is at rest while one call is studied.
CallParked ==
    /\ impl = "transport"
    /\ onAuthRefresh = TRUE
    /\ cpc = "idle"
    /\ attempt = 0
    /\ authRetried = FALSE
    /\ site = "-"
    /\ log = <<>>
    /\ result = NoResult
    /\ heldToken = "old"
    /\ rpcBody = buildRpcBody(heldToken)

AuthParked ==
    /\ state = Unauthenticated
    /\ disk = NoTokens
    /\ cdpEnabled = TRUE
    /\ refreshMutex = 0
    /\ execs = [e \in Tasks |-> NoExec]
    /\ op = [t \in Tasks |-> "none"]
    /\ stack = [t \in Tasks |-> <<>>]
    /\ ret = [t \in Tasks |-> FALSE]
    /\ snap = [t \in Tasks |-> NoTokens]
    /\ bound = [t \in Tasks |-> 0]
    /\ opsStarted = 0
    /\ runs = [t \in Tasks |-> 0]
    /\ returned = NoReturn

Init == AuthStarts /\ CallParked /\ DecodeParked /\ QueryParked /\ ClientParked /\ SessionParked
    /\ ToolsParked /\ CodecParked

Next ==
    \/ \E t \in Tasks : StartRefresh(t)
    \/ \E t \in Tasks : StartOnAuthRefresh(t)
    \/ \E t \in Tasks, elapsed \in BOOLEAN : StartEnsureValid(t, elapsed)
    \/ \E t \in Tasks, c \in {"c1", "bad"}, k \in {"", "old"} :
           StartSaveManualTokens(t, c, k)
    \/ \E t \in Tasks : Reset(t)
    \/ \E t \in Tasks, o \in {"token", "savefail", "fail"} : CsrfFetchReturns(t, o)
    \/ \E t \in Tasks : DoRefreshAfterLayer1(t)
    \/ \E t \in Tasks : DoRefreshAfterLayer2(t)
    \/ \E t \in Tasks, found \in BOOLEAN : CdpReturns(t, found)
    \/ \E t \in Tasks : CdpThrows(t)
    \/ \E t \in Tasks : CdpAvailableReturns(t)
    \/ \E t \in Tasks : RefreshFinally(t)
    \/ \E t \in Tasks : RefreshJoined(t)
    \/ \E t \in Tasks : EnsureValidAfterInitialize(t)
    \/ \E t \in Tasks : EnsureValidAfterCsrf(t)
    \/ \E t \in Tasks : SaveManualTokensAfterCsrf(t)

Spec == Init /\ [][Next]_vars

InitCall == CallStarts /\ AuthParked /\ DecodeParked /\ QueryParked /\ ClientParked /\ SessionParked
    /\ ToolsParked /\ CodecParked

NextCall ==
    \/ \E r \in Responses : TransportFetch(r)
    \/ \E o \in RefreshOutcomes, err \in RefreshThrows : TransportRefreshReturn(o, err)
    \/ TransportSleep
    \/ \E r \in Responses : RecoveryFetch(r)
    \/ \E o \in {"ok", "fail"} : RecoveryRefreshReturn(o)
    \/ \E pct \in JitterPcts : RecoverySleep(pct)

SpecCall == InitCall /\ [][NextCall]_vars

\* Every await of the call settles: the fetch answers or throws (it carries
\* a timeout), the sleep ends, the refresh callback answers or throws.
SpecCallLive == SpecCall /\ WF_vars(NextCall)

InitDecode == DecodeStarts /\ CallParked /\ AuthParked /\ QueryParked /\ ClientParked /\ SessionParked
    /\ ToolsParked /\ CodecParked

NextDecode == TransportExtract \/ ApiExtract

SpecDecode == InitDecode /\ [][NextDecode]_vars

InitQuery == QueryStarts /\ CallParked /\ AuthParked /\ DecodeParked /\ ClientParked /\ SessionParked
    /\ ToolsParked /\ CodecParked

NextQuery ==
    \/ \E c \in ConvIds \cup {"new"}, q \in Queries : QueryCall(c, q)
    \/ \E r \in StreamResponses : StreamQueryReturns(r)
    \/ \E chunk \in Chunks : DecodeChunk(chunk)
    \/ \E fresh \in ConvIds : DecodeReturns(fresh)
    \/ \E c \in ConvIds : ClearConversation(c)

SpecQuery == InitQuery /\ [][NextQuery]_vars

InitClient == ClientStarts /\ CallParked /\ AuthParked /\ DecodeParked /\ QueryParked /\ SessionParked
    /\ ToolsParked /\ CodecParked

NextClient ==
    \/ \E a \in Callers : GetClient(a)
    \/ \E p \in DOMAIN promises, valid \in EnsureValidOutcomes :
           ClientPromiseSettles(p, valid)
    \/ \E a \in Callers : GetClientFinally(a)
    \/ \E a \in Callers : GetClientJoined(a)
    \/ ResetClient

SpecClient == InitClient /\ [][NextClient]_vars

InitSession ==
    /\ SessionStarts /\ CallParked /\ AuthParked /\ DecodeParked /\ QueryParked
    /\ ClientParked /\ ToolsParked /\ CodecParked

NextSession ==
    /\ \/ \E n \in NotebookIds \cup {NoNotebook} : setActiveNotebook(n)
       \/ \E c \in SessionConversations \cup {NoNotebook} : setConversation(c)
       \/ \E id \in TaskIds : addPendingTask(id)
       \/ reset
       \/ \E hasClient \in BOOLEAN : IdleStarts(hasClient)
       \/ \E outcome \in PollOutcomes : IdlePoll(outcome)
       \/ IdleEnds
    /\ UNCHANGED <<callVars, authVars, decodeVars, queryVars, clientVars, toolVars,
                   codecVars>>

SpecSession == InitSession /\ [][NextSession]_vars

InitTools ==
    /\ ToolsStart /\ CallParked /\ AuthParked /\ DecodeParked /\ QueryParked
    /\ ClientParked /\ SessionParked /\ CodecParked

NextTools ==
    /\ \/ \E r \in Runs, tool \in ConfirmTools, confirm \in ConfirmValues,
             hasClient \in BOOLEAN : ToolExecute(r, tool, confirm, hasClient)
       \/ \E r \in Runs, found \in BOOLEAN, hasClient \in BOOLEAN :
             ToolResolved(r, found, hasClient)
       \/ \E r \in Runs, ok \in BOOLEAN : ToolClientReturns(r, ok)
    /\ UNCHANGED <<callVars, authVars, decodeVars, queryVars, clientVars, sessionVars,
                   codecVars>>

SpecTools == InitTools /\ [][NextTools]_vars

InitCodec ==
    /\ CodecStarts /\ CallParked /\ AuthParked /\ DecodeParked /\ QueryParked
    /\ ClientParked /\ SessionParked /\ ToolsParked

NextCodec ==
    /\ Encode \/ Echo \/ ParseResponse \/ ExtractResult
    /\ UNCHANGED <<callVars, authVars, decodeVars, queryVars, clientVars, sessionVars,
                   toolVars>>

SpecCodec == InitCodec /\ [][NextCodec]_vars

(***************************************************************************)
(* Properties of the AuthManager (Spec)                                    *)
(***************************************************************************)

\* Tasks inside refresh(): the starter awaits its own promise, a joiner the
\* promise it was handed.
InRefresh(t) == "rf_await" \in Range(stack[t]) \/ "rf_join" \in Range(stack[t])

\* A refresh() call that waits for a promise still in flight.
Waiting(t) == InRefresh(t) /\ bound[t] # 0 /\ ~execs[bound[t]].done

\* Tasks with an outstanding call of the given kind.
Outstanding(label) == {t \in Tasks : ~Idle(t) /\ Top(stack[t]) = label}

\* The promises in use.
Used == {e \in DOMAIN execs : execs[e].callers > 0}

\* C1: at any moment at most one execution of the layered refresh is in
\* flight, and it is the one the mutex holds; every refresh() call waiting
\* while it is in flight waits for that very execution (none starts a
\* second one), and every caller of an execution receives the result of
\* that execution, and only once it has resolved.
C1_SingleFlight ==
    /\ Cardinality(InFlight(execs)) <= 1
    /\ \A e \in InFlight(execs) : refreshMutex = e
    /\ \A t \in Tasks : Waiting(t) => bound[t] = refreshMutex
    /\ \A e \in Used :
           execs[e].answers \subseteq (IF execs[e].done THEN {execs[e].result} ELSE {})

\* C1 case: an execution that served two or more callers has resolved and
\* has answered all of them.
C1_Witness ==
    \E e \in Used :
        /\ execs[e].callers >= 2
        /\ Unreferenced(execs, bound, e)
        /\ execs[e].answers = {execs[e].result}

\* C2: whatever the number of simultaneous refresh() calls, the browser
\* automation is launched at most once per execution and never twice at the
\* same time; when the execution started with no credentials loaded, found
\* none usable in the persisted file and browser automation is enabled, it
\* is launched exactly once; and all callers of the execution receive the
\* same outcome.
C2_OneLaunch ==
    /\ Cardinality(Outstanding("dr_cdp")) <= 1
    /\ \A t, u \in Tasks : Waiting(t) /\ Waiting(u) => bound[t] = bound[u]
    /\ \A e \in Used :
           /\ execs[e].cdp <= 1
           /\ execs[e].done /\ execs[e].bare /\ ~execs[e].reloaded /\ cdpEnabled
                  => execs[e].cdp = 1
           /\ Cardinality(execs[e].answers) <= 1

\* C2 case: two or more refresh() calls were served by one execution that
\* started without credentials, launched the browser once, and has answered
\* all of them.
C2_Witness ==
    \E e \in Used :
        /\ execs[e].callers >= 2
        /\ execs[e].bare
        /\ cdpEnabled
        /\ execs[e].cdp = 1
        /\ Unreferenced(execs, bound, e)
        /\ Cardinality(execs[e].answers) = 1

\* Tasks that recover for a Transport call (the onAuthRefresh callback) and
\* have the token fetch outstanding.
TokenFetches ==
    {t \in Tasks : op[t] = "onAuthRefresh" /\ ~Idle(t) /\ Top(stack[t]) = "csrf_fetch"}

\* C3: when several Transport calls in flight each hit an authentication
\* failure, their recoveries collapse into one attempt: never are two token
\* fetches or two browser launches outstanding at the same time.
C3_RecoveriesCollapse ==
    /\ Cardinality(TokenFetches) <= 1
    /\ Cardinality(Outstanding("dr_cdp")) <= 1

\* The step writes the Credential State (a change of csrfAged to TRUE is the
\* clock, not a write).
Writes ==
    \/ state'.status # state.status
    \/ state'.tokens # state.tokens
    \/ state.csrfAged /\ ~state'.csrfAged

\* The step is taken by task t, from inside the frame `label`.
StepInside(t, label) == label \in Range(stack[t]) /\ stack'[t] # stack[t]

\* C4: every write to the Credential State is made inside the single-flight
\* critical section of refresh(), or by the proactive-check path of
\* ensureValid() while no refresh() is in flight.
C4_WritesSerialized ==
    [][Writes =>
          \/ \E t \in Tasks : StepInside(t, "rf_await")
          \/ /\ InFlight(execs) = {}
             /\ \E t \in Tasks : StepInside(t, "ev_csrf")]_vars

\* Task t takes the step, resuming at the frame `label`.
From(t, label) == ~Idle(t) /\ Top(stack[t]) = label /\ stack'[t] # stack[t]

\* The step brings task t into the frame `label`.
Enters(t, label) == label \in Range(stack'[t]) /\ label \notin Range(stack[t])

\* The persisted credentials pass the test of Layer 2.
Usable(tokens) ==
    tokens # NoTokens /\ validateCookies(tokens.cookies) /\ ~isTokenExpired(tokens)

\* The step resolves the doRefresh() of task t with v.
Resolves(t, v) ==
    /\ bound[t] # 0
    /\ ~execs[bound[t]].done
    /\ execs'[bound[t]].done
    /\ ~execs'[bound[t]].raised
    /\ execs'[bound[t]].result = v

\* C15: the layers are tried in order and the recovery stops at the first
\* that succeeds: the persisted store is re-read (Layer 2, and Layer 3
\* after it) only when doRefresh resumes from a Layer 1 that failed, the
\* browser automation is launched only when moreover the persisted
\* credentials were not usable, and a Layer 1 that succeeded resolves the
\* recovery at once with success, nothing reloaded and nothing launched.
C15_LayerOrder ==
    [][\A t \in Tasks :
          /\ Enters(t, "dr_L2") \/ Enters(t, "dr_cdp") \/ Enters(t, "dr_avail")
                 => From(t, "dr_L1") /\ ~ret[t]
          /\ Enters(t, "dr_L2") => Usable(disk)
          /\ Enters(t, "dr_cdp") => ~Usable(disk)
          /\ From(t, "dr_L1") /\ ret[t]
                 => /\ Resolves(t, TRUE)
                    /\ execs'[bound[t]].cdp = 0
                    /\ ~execs'[bound[t]].reloaded
                    /\ ~Enters(t, "dr_L2")]_vars

\* C15 case: an execution whose Layer 1 fetch failed and that found nothing
\* usable in the persisted store succeeded at Layer 3, launched once.
C15_Witness ==
    \E e \in Used :
        /\ execs[e].done
        /\ execs[e].result
        /\ ~execs[e].bare
        /\ ~execs[e].reloaded
        /\ execs[e].cdp = 1

\* C16: when Layer 2 adopted the reloaded credentials and the token refresh
\* retried with them fails, the recovery does not report success at Layer 2
\* and goes on to Layer 3.
C16_Layer2NeedsRefresh ==
    [][\A t \in Tasks :
          From(t, "dr_L2") /\ ~ret[t]
              => /\ ~Resolves(t, TRUE)
                 /\ Enters(t, "dr_cdp") \/ Enters(t, "dr_avail")]_vars

\* C17: while browser automation is disabled by configuration it is never
\* launched: no launch is outstanding and no execution has launched it.
C17_DisabledNeverLaunches ==
    ~cdpEnabled =>
        /\ Outstanding("dr_cdp") = {}
        /\ \A e \in Used : execs[e].cdp = 0

\* C17 case: with browser automation disabled, an execution that started
\* with no credentials went through all layers and failed.
C17_Witness ==
    /\ ~cdpEnabled
    /\ \E e \in Used :
           /\ execs[e].done
           /\ ~execs[e].result
           /\ execs[e].bare
           /\ ~execs[e].reloaded

\* C18: when the recovery resolves with failure, the Credential State it
\* leaves is Expired, with the credentials held until then, if any were
\* held, and Unauthenticated otherwise; it is never Authenticated.
C18_FailureLeavesExpired ==
    [][\A t \in Tasks :
          Resolves(t, FALSE) /\ StepInside(t, "rf_await")
              => state' = (IF getTokens(state) # NoTokens
                           THEN Expired(getTokens(state))
                           ELSE Unauthenticated)]_vars

\* C18 case: a recovery has just resolved with failure, leaving the state
\* Expired; its starter has not resumed yet.
C18_Witness ==
    \E t \in Tasks :
        /\ ~Idle(t)
        /\ Top(stack[t]) = "rf_await"
        /\ execs[bound[t]].done
        /\ ~execs[bound[t]].result
        /\ state.status = "expired"

\* C19: refresh() never raises: no layered recovery ends with an exception,
\* whatever fails inside a layer (the token fetch, a read or a write of the
\* persisted store, the browser automation).
C19_RefreshNeverRaises == \A e \in Used : ~execs[e].raised

\* C20: one invocation of ensureValid() starts the layered recovery at most
\* once.
C20_OneRecoveryPerCheck ==
    \A t \in Tasks : op[t] = "ensureValid" => runs[t] <= 1

\* The step starts an ensureValid() in task t that does not return at once.
EnsureValidBegins(t) == Idle(t) /\ op'[t] = "ensureValid"

\* The step has task t call refresh().
CallsRefresh(t) == Enters(t, "rf_await") \/ Enters(t, "rf_join")

\* C21: ensureValid() called in Unauthenticated adopts persisted credentials
\* that are valid and usable and starts the lightweight token refresh
\* before it returns; when its load of the persisted store has failed it
\* calls the full refresh().
C21_LoadThenTokenRefresh ==
    [][\A t \in Tasks :
          /\ EnsureValidBegins(t) /\ state.status = "unauthenticated" /\ Usable(disk)
                 => /\ state'.status = "authenticated"
                    /\ state'.tokens = disk
                    /\ Enters(t, "csrf_fetch")
          /\ From(t, "ev_init") /\ ~ret[t] => CallsRefresh(t)]_vars

\* C22: ensureValid() called while Authenticated with the token past the
\* proactive threshold starts the lightweight token refresh, and when that
\* refresh has ended it reports success, whatever the refresh answered.
C22_BestEffortProactive ==
    [][\A t \in Tasks :
          /\ EnsureValidBegins(t) /\ isAuthenticated(state) /\ state'.csrfAged
                 => Enters(t, "csrf_fetch")
          /\ From(t, "ev_csrf") => returned'.value = "true"]_vars

\* The step is a call of ensureValid().
EnsureValidCalled ==
    \/ returned'.op = "ensureValid" /\ returned'.from = "call"
    \/ \E t \in Tasks : EnsureValidBegins(t)

\* C23: a call of ensureValid() made while the state is Authenticated and
\* the token is within the proactive window starts no fetch and no other
\* await, leaves the Credential State and the persisted file as they were,
\* and reports success; so does any number of such calls in a row.
C23_IdempotentWhenFresh ==
    [][EnsureValidCalled /\ isAuthenticated(state) /\ ~state'.csrfAged
          => /\ state' = state
             /\ disk' = disk
             /\ stack' = stack
             /\ returned'.value = "true"]_vars

\* C23 case: an ensureValid() has just returned from its call, the state
\* being Authenticated with a token within the proactive window.
C23_Witness ==
    /\ returned = [op |-> "ensureValid", from |-> "call", value |-> "true"]
    /\ isAuthenticated(state)
    /\ ~state.csrfAged

\* getClient() resumes from an ensureValid() that answered true and builds
\* the client: the Transport will send its calls with the credentials of
\* the state.
ClientBuilt == returned.op = "ensureValid" /\ returned.value = "true"

\* C25: credentials adopted without an anti-forgery token are not handed to
\* the Transport as they are: when getClient() builds the client, the
\* credentials of the state carry a token.
C25_TokenBeforeFirstUse ==
    ClientBuilt => getTokens(state) # NoTokens /\ getTokens(state).csrf # ""

\* C24: when the persisted cookies lack SAPISID, ensureValid() called in
\* Unauthenticated adopts nothing and starts no token fetch of its own, and
\* its next step is the call of the full refresh().
C24_MissingCookieEscalates ==
    [][\A t \in Tasks :
          /\ EnsureValidBegins(t) /\ state.status = "unauthenticated"
                 /\ disk # NoTokens /\ "SAPISID" \notin CookieNames(disk.cookies)
                 => /\ state' = Unauthenticated
                    /\ stack'[t] = <<"ev_init">>
                    /\ ~ret'[t]
          /\ From(t, "ev_init") /\ ~ret[t] => CallsRefresh(t)]_vars

\* C24 case: an ensureValid() that found persisted cookies without SAPISID
\* is inside the full refresh(), with nothing adopted.
C24_Witness ==
    \E t \in Tasks :
        /\ op[t] = "ensureValid"
        /\ InRefresh(t)
        /\ runs[t] = 1
        /\ disk # NoTokens
        /\ "SAPISID" \notin CookieNames(disk.cookies)
        /\ state = Unauthenticated

\* The refresh() call that started the execution held in the single-flight
\* slot has not finished yet.
OwnerRunning ==
    \E t \in Tasks : "rf_await" \in Range(stack[t]) /\ bound[t] = refreshMutex

\* C35: the single-flight slot is held only while the refresh() that filled
\* it is still running: once that refresh() has finished, with success,
\* with failure or with an exception, the slot is free, so that the next
\* refresh() starts an execution of its own.
C35_SlotFreedAfterRefresh == refreshMutex # 0 => OwnerRunning

\* C35 case: a refresh() has just ended with an exception and the slot is
\* free.
C35_Witness ==
    /\ returned.op = "refresh"
    /\ returned.value = "raised"
    /\ returned.from = "rf_await"
    /\ refreshMutex = 0

\* C36: a lightweight token refresh (alone or as Layer 1 of a refresh())
\* whose fetch comes back after a reset() has cleared the Credential State
\* does not make the state Authenticated again with the credentials it
\* captured before the reset.
C36_ResetStaysInvalidated ==
    [][\A t \in Tasks :
          From(t, "csrf_fetch") /\ state.status = "unauthenticated"
              => ~(state'.status = "authenticated"
                     /\ state'.tokens.cookies = snap[t].cookies)]_vars

(***************************************************************************)
(* Properties of one call (SpecCall)                                       *)
(***************************************************************************)

Done == cpc = "done"

IsStatus(r, codes) == r.type = "http" /\ r.status \in codes

IsSentinel16(r) == r.type = "http" /\ r.status = 200 /\ r.body = "rpc16"

IsPayload(r) == r.type = "http" /\ r.status = 200 /\ r.body = "payload"

\* An authentication failure: HTTP 401/403, or a decoded sentinel 16.
AuthFailure(r) == IsStatus(r, {401, 403}) \/ IsSentinel16(r)

\* A transient failure: HTTP status >= 500, or a network/timeout exception
\* (one whose message does not read as an authentication failure).
Transient(r) ==
    \/ r.type = "exc" /\ ~isAuthErrorMessage(r.body)
    \/ r.type = "http" /\ r.status >= 500

\* Invocations of the refresh callback so far.
Refreshes ==
    Cardinality({i \in DOMAIN log : log[i].refresh # "none"})
        + (IF cpc = "refresh" THEN 1 ELSE 0)

\* Requests sent again after a response that was an authentication failure.
AuthRetries == Cardinality({i \in 1..(Len(log) - 1) : AuthFailure(log[i].resp)})

\* Backoff sleeps so far.
Sleeps == Cardinality({i \in DOMAIN log : log[i].slept > 0})

\* The request after response i has been sent, or is about to be.
Retried(i) == i < Len(log) \/ cpc = "fetch"

\* The auth retry was used before response i.
UsedBefore(i) == \E j \in 1..(i - 1) : log[j].refresh # "none"

\* The call ended with response i, without sleeping, with the error code.
EndedAt(i, code) ==
    /\ Done
    /\ i = Len(log)
    /\ log[i].slept = 0
    /\ result.kind = "error"
    /\ result.code = code

\* C5: within one call the refresh is invoked at most once, and at most one
\* request is sent again because the response before it was an
\* authentication failure, whatever the gateway returns and whatever the
\* refresh reports.
C5_OneAuthRetry == Refreshes <= 1 /\ AuthRetries <= 1

\* C6: the auth retry and the transient retries are independent budgets: a
\* call that gives up on a transient failure has slept maxRetries times,
\* whether it used its auth retry or not, and a refresh that succeeded is
\* always followed by its retry, however many transient retries came before.
C6_IndependentBudgets ==
    Done =>
        /\ \A i \in DOMAIN log : log[i].refresh = "ok" => i < Len(log)
        /\ Transient(LastResp) /\ result.kind = "error" => Sleeps = maxRetries

\* C7: after a 401 followed by a successful refresh the request is sent
\* again with no backoff sleep in between (an attempt being left), and if
\* that retry returns 200 with a valid payload the call returns the decoded
\* payload.
C7_ImmediateAuthRetry ==
    \A i \in DOMAIN log :
        IsStatus(log[i].resp, {401}) /\ log[i].refresh = "ok" =>
            /\ log[i].slept = 0
            /\ i <= maxRetries => Retried(i)
            /\ i < Len(log) /\ IsPayload(log[i + 1].resp) =>
                   Done /\ Len(log) = i + 1 /\ result = Value("payload")

\* C7 case: 401, refresh succeeded, 200 with a payload: the call returned it.
C7_Witness ==
    /\ Done
    /\ Len(log) = 2
    /\ IsStatus(log[1].resp, {401})
    /\ log[1].refresh = "ok"
    /\ log[1].slept = 0
    /\ IsPayload(log[2].resp)
    /\ result = Value("payload")

\* C8, as the code has it: after a 401 or 403 whose refresh reported failure
\* the call ends at once, sending nothing more, with the typed
\* authentication error of the status: AUTH_EXPIRED for 401, AUTH_INVALID
\* for 403.
C8_AuthErrorOfStatus ==
    \A i \in DOMAIN log :
        IsStatus(log[i].resp, {401, 403}) /\ log[i].refresh = "fail" =>
            /\ EndedAt(i, IF log[i].resp.status = 401
                           THEN "AUTH_EXPIRED" ELSE "AUTH_INVALID")
            /\ result.retryable

\* C8 case: a 403 whose refresh reported failure ended the call.
C8_Witness ==
    /\ Done
    /\ log # <<>>
    /\ IsStatus(LastResp, {403})
    /\ log[Len(log)].refresh = "fail"
    /\ result.code = "AUTH_INVALID"

\* C8, as stated: after a 401 or 403 whose refresh reported failure the call
\* ends with the typed authentication-expired error and sends no further
\* request.
C8_AuthExpired ==
    \A i \in DOMAIN log :
        IsStatus(log[i].resp, {401, 403}) /\ log[i].refresh = "fail" =>
            EndedAt(i, "AUTH_EXPIRED")

\* C9: a 200 response that decodes to sentinel 16 is handled like a 401/403:
\* a successful refresh is followed by an immediate retry, and a failed
\* refresh, or an auth retry already used, ends the call with the typed
\* authentication-expired error, with no backoff sleep and no further
\* request.
C9_SentinelLikeStatus ==
    \A i \in DOMAIN log :
        IsSentinel16(log[i].resp) =>
            /\ log[i].refresh = "ok" =>
                   log[i].slept = 0 /\ (i <= maxRetries => Retried(i))
            /\ (log[i].refresh = "fail"
                   \/ (log[i].refresh = "none" /\ onAuthRefresh /\ UsedBefore(i)))
                  => EndedAt(i, "AUTH_EXPIRED")

\* C10: when every attempt fails with a status >= 500 or a network/timeout
\* exception, the call sleeps before each retry, sends at most
\* maxRetries + 1 requests, and ends with the typed network error.
C10_TransientExhaustion ==
    (\A i \in DOMAIN log : Transient(log[i].resp)) =>
        /\ Len(log) <= maxRetries + 1
        /\ \A i \in 1..(Len(log) - 1) : log[i].slept > 0
        /\ Done => result.kind = "error" /\ result.code = "NETWORK_ERROR"

\* The 4xx statuses other than 401, 403 and 429.
OtherClientErrors == {c \in Statuses : c >= 400 /\ c < 500} \ {401, 403, 429}

\* C11: a response with a 4xx status other than 401, 403 and 429 ends the
\* call at once with a typed error marked non-retryable: no backoff sleep,
\* no further request and no refresh follow it.
C11_ClientErrorEnds ==
    \A i \in DOMAIN log :
        IsStatus(log[i].resp, OtherClientErrors) =>
            /\ EndedAt(i, "UNKNOWN")
            /\ ~result.retryable
            /\ log[i].refresh = "none"
            /\ cpc # "refresh"

\* C11 case: after a retry, a 404 ended the call with the non-retryable
\* error.
C11_Witness ==
    /\ Done
    /\ Len(log) >= 2
    /\ IsStatus(LastResp, OtherClientErrors)
    /\ result = Error("UNKNOWN", FALSE)

\* C12: a 429 is handled like a status >= 500: while an attempt is left
\* the call sleeps for the backoff duration after it and retries.
C12_RateLimitedRetried ==
    \A i \in DOMAIN log :
        IsStatus(log[i].resp, {429}) /\ i <= maxRetries =>
            \/ log[i].slept > 0
            \/ i = Len(log) /\ cpc = "sleep"

\* A well-formed 200 response whose tuple carries a numeric sentinel other
\* than 16.
IsOtherSentinel(r) == r.type = "http" /\ r.status = 200 /\ r.body = "rpc7"

\* C14: in RpcTransport.call a well-formed response carrying a numeric
\* sentinel other than 16 ends the call with the RPC error as it is: no
\* retry, no backoff sleep and no refresh follow it.
C14_RpcErrorSurfaced ==
    \A i \in DOMAIN log :
        impl = "transport" /\ IsOtherSentinel(log[i].resp) =>
            /\ EndedAt(i, "RPC_ERROR")
            /\ ~result.retryable
            /\ log[i].refresh = "none"
            /\ cpc # "refresh"

\* C14 case: a call with the refresh callback installed and its auth retry
\* unused ended on a sentinel-7 response with the RPC error.
C14_Witness ==
    /\ impl = "transport"
    /\ onAuthRefresh
    /\ ~authRetried
    /\ Done
    /\ log # <<>>
    /\ IsOtherSentinel(LastResp)
    /\ result = Error("RPC_ERROR", FALSE)

\* C37: whatever the gateway answers and the refresh callback reports, one
\* call sends at most maxRetries + 1 requests plus the one auth retry, and
\* it ends: it returns a value or raises an error.
C37_BoundedThenEnds ==
    /\ [](Len(log) <= maxRetries + 2)
    /\ <>(Done /\ result # NoResult)

\* C37 case: a call that sent maxRetries + 1 requests has ended.
C37_Witness == Done /\ Len(log) = maxRetries + 1 /\ result.kind = "error"

\* C34: the request sent after the refresh callback reported success
\* carries the refreshed anti-forgery token.
C34_RetryCarriesRefreshedToken ==
    \A i \in DOMAIN log : i > 1 /\ log[i - 1].refresh = "ok" => log[i].at = "new"

(***************************************************************************)
(* Properties of the decoders (SpecDecode)                                 *)
(***************************************************************************)

\* The error-marker slot item[5] carries the sentinel 16.
Carries16(it) == it.length >= 6 /\ it.slot.isArray /\ Includes16(it.slot.elems)

\* The decoder raised the authentication-expired condition.
AuthExpiredRaised(out) ==
    \/ out.kind = "error" /\ out.code = "AUTH_EXPIRED"
    \/ out.kind = "throw" /\ isAuthErrorMessage(out.code)

\* C13: decoding a tuple that carries the sentinel 16 in its error-marker
\* slot always raises the authentication-expired condition, whatever the
\* other entries of the slot and the other positions of the tuple hold.
C13_Sentinel16Raises ==
    decoded # NoResult /\ Carries16(item) => AuthExpiredRaised(decoded)

(***************************************************************************)
(* Properties of the streaming query (SpecQuery)                           *)
(***************************************************************************)

\* The text of the given length (0: the empty text).
TextOf(n) == IF n = 0 THEN NoText ELSE CHOOSE x \in Texts : TextLength(x) = n

\* The longest accepted answer text seen, else the longest accepted
\* reasoning text seen, else the empty text.
LongestSeen(sn) == IF sn.answer > 0 THEN TextOf(sn.answer) ELSE TextOf(sn.thinking)

\* The decoder has read the stream to its end and query() has acted on the
\* answer.
Decoded ==
    qpc = "done" /\ (qResult.kind = "value" \/ qResult = Error("VALIDATION_ERROR", FALSE))

\* C26: when the decoder has read all chunks, its result is the longest
\* accepted text tagged final answer that any item of any chunk carried,
\* if there is one, else the longest accepted reasoning text, else empty.
C26_LongestAnswerWins == Decoded => answer = LongestSeen(seen)

\* The failure is the typed authentication-expired error.
TypedAuthExpired(out) == out.kind = "error" /\ out.code = "AUTH_EXPIRED"

\* C27: a query whose stream carried an item with the sentinel 16 in its
\* error slot ends with the typed authentication-expired error.
C27_StreamSentinelTyped == qpc = "done" /\ seen.sentinel => TypedAuthExpired(qResult)

\* query() is called as a follow-up on conversation c.
FollowUpBegins(c) == qpc # "fetch" /\ qpc' = "fetch" /\ qConv' = c

\* h is the flattening of the turns: for the i-th turn, oldest first, the
\* triple of its answer and then the triple of its query.
Flattens(h, turns) ==
    /\ Len(h) = 2 * Len(turns)
    /\ \A i \in 1..Len(turns) :
          /\ h[2 * i - 1] = <<turns[i].answer, "null", 2>>
          /\ h[2 * i] = <<turns[i].query, "null", 1>>

\* C28: a follow-up query on a conversation with stored turns passes as
\* history the flattening of all its stored turns, oldest first, each turn
\* as [answer, null, 2] followed by [query, null, 1].
C28_HistoryOrder ==
    [][\A c \in ConvIds :
          FollowUpBegins(c) /\ conversationCache[c] # <<>>
              => Flattens(history', conversationCache[c])]_vars

\* A follow-up is out on a conversation of two stored turns with different
\* answers.
C28_Witness ==
    /\ qpc = "fetch"
    /\ qConv \in ConvIds
    /\ Len(history) = 4
    /\ history[1] # history[3]
    /\ Flattens(history, conversationCache[qConv])

\* The sequence a is a prefix of the sequence b.
IsPrefix(a, b) == Len(a) <= Len(b) /\ \A i \in 1..Len(a) : a[i] = b[i]

\* C29 (as stated): every step leaves the earlier record of each
\* conversation a prefix of the later one.
C29_RecordOnlyGrows ==
    [][\A c \in ConvIds : IsPrefix(conversationCache[c], conversationCache'[c])]_vars

\* C29 (amended): a stored turn is never changed, and it is removed only
\* together with all the turns of its conversation: every step leaves the
\* earlier record a prefix of the later one, or leaves no record at all.
C29_GrowsOrCleared ==
    [][\A c \in ConvIds :
          \/ IsPrefix(conversationCache[c], conversationCache'[c])
          \/ conversationCache'[c] = <<>>]_vars

\* A second turn has been appended to a conversation; the first is intact.
C29_Witness ==
    /\ qpc = "done"
    /\ qResult.kind = "value"
    /\ \E c \in ConvIds :
          /\ Len(conversationCache[c]) = 2
          /\ conversationCache[c][2].answer = qResult.value
          /\ conversationCache[c][1].answer # qResult.value

\* C39: a query issued without a conversation identifier returns the
\* identifier that was sent to the service with that request (the turn is
\* stored under the identifier returned).
C39_ReturnedIdIsSentId ==
    qpc = "done" /\ qResult.kind = "value" /\ qConv = "new"
        => qId = qSent

\* C30: a streaming query that fails inside the Transport (streamQuery)
\* fails with a typed error carrying a code and a retryable flag.
C30_StreamFailureTyped ==
    [][qpc = "fetch" /\ qpc' = "done" => qResult'.kind = "error"]_vars

(***************************************************************************)
(* Properties of getClient (SpecClient)                                    *)
(***************************************************************************)

\* The promises whose ensureValid() has not returned yet.
PendingPromises == {p \in DOMAIN promises : promises[p] = Pending}

\* The getClient() calls that have not been answered yet.
Unanswered == {a \in Callers : gcpc[a] \in {"owner", "joined"}}

\* C38: getClient() calls made while no client exists and a construction is
\* under way share that one construction: at most one ensureValid() is
\* running for them, every call still waiting for it waits on the same
\* promise, and the calls answered by one promise all received the client
\* it constructed, or all received its failure.
C38_OneConstruction ==
    /\ Cardinality(PendingPromises) <= 1
    /\ \A a, b \in Unanswered :
          gcBound[a] \in PendingPromises /\ gcBound[b] \in PendingPromises
              => gcBound[a] = gcBound[b]
    /\ \A a, b \in Callers :
          gcpc[a] = "done" /\ gcpc[b] = "done" /\ gcBound[a] # 0
              /\ gcBound[a] = gcBound[b]
              => got[a] = got[b]

\* C38 case: three concurrent calls were answered by one construction, all
\* with the same client.
C38_Witness ==
    /\ Len(promises) = 1
    /\ \A a \in 1..3 : gcpc[a] = "done" /\ gcBound[a] = 1 /\ got[a] = Instance(1)

(***************************************************************************)
(* Properties of the session state (SpecSession)                           *)
(***************************************************************************)

SessionInitial ==
    /\ sessionState.notebookId = NoNotebook
    /\ sessionState.conversationId = NoNotebook
    /\ arrays[sessionState.pendingTasks] = <<>>

\* C32: right after reset() the session state is the initial one: no active
\* notebook, no conversation, no pending task, whatever came before.
C32_ResetRestoresInitial == sessOp.name = "reset" => SessionInitial

\* C40: a task the poller removed after its retries were used up is never
\* polled again.
C40_DroppedNeverPolledAgain ==
    [][\A id \in TaskIds :
          id \in dropped => ~(sessOp'.name = "poll" /\ sessOp'.id = id)]_vars

(***************************************************************************)
(* Properties of the guarded tools (SpecTools)                             *)
(***************************************************************************)

Unconfirmed(run) == run.pc # "free" /\ run.confirm # "true"

C33_RoundTrip ==
    codec.stage = "extracted" => codec.out = [kind |-> "value", v |-> codec.p]

\* C33 case: a payload whose string holds a quote and the character U+007F,
\* inside a nested array, has gone all the way round.
C33_Witness ==
    /\ codec.stage = "extracted"
    /\ codec.p = JArr(<<JNull, JArr(<<JNum(7), JStr(<<Quote, Delete>>)>>), JTrue>>)
    /\ codec.out.v = codec.p
    /\ Len(codec.parsed) = 1

=============================================================================
